---- MODULE Spec2Model ----
(***************************************************************************)
(* Recipe validation and field normalization of plaite:                    *)
(*   plaite.pipeline.validation.validate_and_transform_recipe              *)
(*   plaite.firebase.upload.process_recipe_fields                          *)
(*   plaite.models.recipe.Recipe (from_raw and the field validators)       *)
(*                                                                         *)
(* A Python value is a record [t |-> type name, v |-> payload].  A str is  *)
(* its sequence of characters, a list its sequence of items, a nested dict *)
(* its sequence of key/value pairs in insertion order.  A recipe (the      *)
(* top-level dict) is a function from Keys to values, a key that is not in *)
(* the dict being mapped to Absent.                                        *)
(***************************************************************************)
EXTENDS Integers, Sequences, FiniteSets, TLC

\* ------------------------------------------------------------------------
\* Bounds of the explored inputs
\* ------------------------------------------------------------------------

\* longest numServings string explored
MaxStrLen == 3

\* most entries of a nutrients mapping explored
MaxNutrients == 2

\* ------------------------------------------------------------------------
\* Python values
\* ------------------------------------------------------------------------

Absent == [t |-> "absent", v |-> 0]

PyNone == [t |-> "NoneType", v |-> 0]

PyInt(n) == [t |-> "int", v |-> n]

\* a float n / 10^e, kept normalised (n not divisible by 10 unless e = 0)
PyFloat(n, e) == [t |-> "float", v |-> [n |-> n, e |-> e]]

PyStr(chars) == [t |-> "str", v |-> chars]

PyList(items) == [t |-> "list", v |-> items]

PyDict(pairs) == [t |-> "dict", v |-> pairs]

Pair(key, value) == [k |-> key, val |-> value]

IsInstance(x, types) == x.t \in types

\* truth value of a Python object
Truthy(x) ==
    CASE x.t = "NoneType" -> FALSE
      [] x.t = "int" -> x.v # 0
      [] x.t = "float" -> x.v.n # 0
      [] x.t \in {"str", "list", "dict"} -> Len(x.v) > 0
      [] OTHER -> TRUE

\* a or b
PyOr(a, b) == IF Truthy(a) THEN a ELSE b

\* key in d
Has(d, key) == d[key] # Absent

\* d.get(key, default)
Get(d, key, default) == IF Has(d, key) THEN d[key] ELSE default

\* d[key] = value
SetItem(d, key, value) == [d EXCEPT ![key] = value]

\* d.pop(key), the dict that remains
Pop(d, key) == [d EXCEPT ![key] = Absent]

\* string literals of the source
STR_unknown == PyStr(<<"u", "n", "k", "n", "o", "w", "n">>)

STR_tags == PyStr(<<"t", "a", "g", "s">>)

STR_instructions == PyStr(<<"i", "n", "s", "t", "r", "u", "c", "t", "i", "o", "n", "s">>)

STR_ingredients == PyStr(<<"i", "n", "g", "r", "e", "d", "i", "e", "n", "t", "s">>)

STR_url == PyStr(<<"u", "r", "l">>)

STR_name == PyStr(<<"n", "a", "m", "e">>)

STR_quantity == PyStr(<<"q", "u", "a", "n", "t", "i", "t", "y">>)

\* ------------------------------------------------------------------------
\* str(), float() and re.findall(r"\d+\.?\d*", s)
\* ------------------------------------------------------------------------

DigitChars == <<"0", "1", "2", "3", "4", "5", "6", "7", "8", "9">>

IsDigit(c) == \E d \in 1..10 : DigitChars[d] = c

DigitValue(c) == (CHOOSE d \in 1..10 : DigitChars[d] = c) - 1

RECURSIVE IntToChars(_)
\* the decimal digits of a natural number
IntToChars(n) ==
    IF n < 10 THEN <<DigitChars[n + 1]>>
    ELSE Append(IntToChars(n \div 10), DigitChars[(n % 10) + 1])

\* str(x) for the values a nutrients mapping holds
PyStrOf(x) ==
    CASE x.t = "str" -> x
      [] x.t = "int" -> PyStr(IntToChars(x.v))
      [] x.t = "NoneType" -> PyStr(<<"N", "o", "n", "e">>)

RECURSIVE NormalizeFloat(_, _)
NormalizeFloat(n, e) ==
    IF e > 0 /\ n % 10 = 0 THEN NormalizeFloat(n \div 10, e - 1)
    ELSE PyFloat(n, e)

RECURSIVE DigitsToInt(_)
\* the number written by the digits of chars, any '.' skipped
DigitsToInt(chars) ==
    IF chars = <<>> THEN 0
    ELSE LET last == chars[Len(chars)]
             init == SubSeq(chars, 1, Len(chars) - 1)
         IN  IF last = "." THEN DigitsToInt(init)
             ELSE 10 * DigitsToInt(init) + DigitValue(last)

\* digits after the '.' of a token, 0 when it has none
FractionLen(chars) ==
    IF \E i \in 1..Len(chars) : chars[i] = "."
    THEN Len(chars) - (CHOOSE i \in 1..Len(chars) : chars[i] = ".")
    ELSE 0

\* float(token) for a token matched by \d+\.?\d*
FloatOfToken(chars) == NormalizeFloat(DigitsToInt(chars), FractionLen(chars))

\* float(x) for an int or a float
FloatOfNumber(x) == IF x.t = "int" THEN PyFloat(x.v, 0) ELSE x

RECURSIVE DigitRunEnd(_, _)
\* last index of the run of digits of s that starts at i (i - 1 when none)
DigitRunEnd(s, i) ==
    IF i <= Len(s) /\ IsDigit(s[i]) THEN DigitRunEnd(s, i + 1) ELSE i - 1

\* last index of the match of \d+\.?\d* that starts at the digit s[i]
MatchEnd(s, i) ==
    LET a == DigitRunEnd(s, i)
    IN  IF a + 1 <= Len(s) /\ s[a + 1] = "." THEN DigitRunEnd(s, a + 2) ELSE a

RECURSIVE FindAllFrom(_, _)
\* the non-overlapping matches of \d+\.?\d* in s from index i on
FindAllFrom(s, i) ==
    IF i > Len(s) THEN <<>>
    ELSE IF IsDigit(s[i])
         THEN <<SubSeq(s, i, MatchEnd(s, i))>> \o FindAllFrom(s, MatchEnd(s, i) + 1)
         ELSE FindAllFrom(s, i + 1)

\* re.findall(r"\d+\.?\d*", s)
FindAll(s) == FindAllFrom(s, 1)

\* ------------------------------------------------------------------------
\* validate_and_transform_recipe
\* ------------------------------------------------------------------------

Keys == {"id", "recipe_id", "uuid", "title", "channel", "tags", "instructions",
         "ingredients", "ingredientStrings", "procesedIngredients",
         "nutrients", "numServings", "url"}

\* type(x).__name__
TypeName(x) ==
    CASE x.t = "str" -> PyStr(<<"s", "t", "r">>)
      [] x.t = "int" -> PyStr(<<"i", "n", "t">>)
      [] x.t = "float" -> PyStr(<<"f", "l", "o", "a", "t">>)
      [] x.t = "list" -> PyStr(<<"l", "i", "s", "t">>)
      [] x.t = "dict" -> PyStr(<<"d", "i", "c", "t">>)
      [] x.t = "NoneType" -> PyStr(<<"N", "o", "n", "e", "T", "y", "p", "e">>)

ValidationError(recipe_id, field, error, value) ==
    [recipe_id |-> recipe_id, field |-> field, error |-> error, value |-> value]

ValidationResult(is_valid, recipe, errors) ==
    [t |-> "ValidationResult", is_valid |-> is_valid, recipe |-> recipe,
     errors |-> errors]

\* an exception leaving the function
Raise(exc) == [t |-> "raise", exc |-> exc]

\* a failure return that passes a fresh empty list, as the success return does
Failure_EmptyErrors(errors) == ValidationResult(FALSE, PyNone, <<>>)

\* return ValidationResult(is_valid=False, recipe=None, errors=errors)
Failure(errors) == ValidationResult(FALSE, PyNone, errors)

\* 1. the two field renames, on the copy of the caller's record
RenameFields(recipe) ==
    LET copy == recipe
        renamed1 == IF Has(copy, "ingredients")
                    THEN SetItem(Pop(copy, "ingredients"), "ingredientStrings",
                                 copy["ingredients"])
                    ELSE copy
    IN  IF Has(renamed1, "procesedIngredients")
        THEN SetItem(Pop(renamed1, "procesedIngredients"), "ingredients",
                     renamed1["procesedIngredients"])
        ELSE renamed1

\* a required field check that leaves ingredients out
MissingRequired_NoIngredients(recipe_data) ==
    \/ ~Has(recipe_data, "tags")
    \/ ~Has(recipe_data, "instructions")

\* 2. required field check
MissingRequired(recipe_data) ==
    \/ ~Has(recipe_data, "tags")
    \/ ~Has(recipe_data, "instructions")
    \/ ~Has(recipe_data, "ingredients")

\* type checks made in the order instructions, tags, ingredients
TypeMismatch_InstructionsFirst(recipe_data) ==
    IF ~Has(recipe_data, "instructions") THEN "KeyError"
    ELSE IF ~IsInstance(recipe_data["instructions"], {"list"}) THEN "instructions"
    ELSE IF ~Has(recipe_data, "tags") THEN "KeyError"
    ELSE IF ~IsInstance(recipe_data["tags"], {"list"}) THEN "tags"
    ELSE IF ~Has(recipe_data, "ingredients") THEN "KeyError"
    ELSE IF ~IsInstance(recipe_data["ingredients"], {"list"}) THEN "ingredients"
    ELSE ""

\* 3. the first of tags, instructions, ingredients that is not a list:
\* its name, "" when all three are lists, "KeyError" when recipe_data[key]
\* is evaluated for a key that is not in the dict
TypeMismatch(recipe_data) ==
    IF ~Has(recipe_data, "tags") THEN "KeyError"
    ELSE IF ~IsInstance(recipe_data["tags"], {"list"}) THEN "tags"
    ELSE IF ~Has(recipe_data, "instructions") THEN "KeyError"
    ELSE IF ~IsInstance(recipe_data["instructions"], {"list"}) THEN "instructions"
    ELSE IF ~Has(recipe_data, "ingredients") THEN "KeyError"
    ELSE IF ~IsInstance(recipe_data["ingredients"], {"list"}) THEN "ingredients"
    ELSE ""

\* a conversion that keeps the quantity as it is, without str()
NutrientsArray_RawQuantity(nutrients) ==
    PyList([i \in 1..Len(nutrients.v) |->
              PyDict(<<Pair(STR_name, nutrients.v[i].k),
                       Pair(STR_quantity, nutrients.v[i].val)>>)])

\* [{"name": name, "quantity": str(quantity)} for name, quantity in nutrients.items()]
NutrientsArray(nutrients) ==
    PyList([i \in 1..Len(nutrients.v) |->
              PyDict(<<Pair(STR_name, nutrients.v[i].k),
                       Pair(STR_quantity, PyStrOf(nutrients.v[i].val))>>)])

\* 4. nutrients transformation
TransformNutrients(recipe_data) ==
    IF Has(recipe_data, "nutrients")
    THEN LET nutrients == recipe_data["nutrients"]
         IN  IF IsInstance(nutrients, {"dict"})
             THEN SetItem(recipe_data, "nutrients", NutrientsArray(nutrients))
             ELSE IF ~IsInstance(nutrients, {"list"})
                  THEN SetItem(recipe_data, "nutrients", PyList(<<>>))
                  ELSE recipe_data
    ELSE recipe_data

\* 5. numServings normalization
TransformServings(recipe_data) ==
    IF Has(recipe_data, "numServings")
    THEN LET servings == recipe_data["numServings"]
         IN  IF IsInstance(servings, {"str"})
             THEN LET numbers == FindAll(servings.v)
                  IN  IF numbers # <<>>
                      THEN SetItem(recipe_data, "numServings", FloatOfToken(numbers[1]))
                      ELSE SetItem(recipe_data, "numServings", PyNone)
             ELSE IF ~IsInstance(servings, {"int", "float"})
                  THEN SetItem(recipe_data, "numServings", PyNone)
                  ELSE recipe_data
    ELSE recipe_data

\* a url check with the negation lost
MissingUrl_Inverted(recipe_data) == Has(recipe_data, "url")

\* 6. image URL check
MissingUrl(recipe_data) == ~Has(recipe_data, "url")

validate_and_transform_recipe(recipe) ==
    LET recipe_id == Get(recipe, "id", STR_unknown)
        recipe_data == RenameFields(recipe)
        mismatch == TypeMismatch(recipe_data)
        transformed == TransformServings(TransformNutrients(recipe_data))
    IN  IF MissingRequired(recipe_data)
        THEN Failure(<<ValidationError(recipe_id, PyNone,
                 "Missing required fields (tags, instructions, or ingredients)",
                 PyNone)>>)
        ELSE IF mismatch = "KeyError" THEN Raise("KeyError")
        ELSE IF mismatch = "tags"
        THEN Failure(<<ValidationError(recipe_id, STR_tags, "tags is not a list",
                                       TypeName(recipe_data["tags"]))>>)
        ELSE IF mismatch = "instructions"
        THEN Failure(<<ValidationError(recipe_id, STR_instructions,
                                       "instructions is not a list",
                                       TypeName(recipe_data["instructions"]))>>)
        ELSE IF mismatch = "ingredients"
        THEN Failure(<<ValidationError(recipe_id, STR_ingredients,
                                       "ingredients is not a list",
                                       TypeName(recipe_data["ingredients"]))>>)
        ELSE IF MissingUrl(transformed)
        THEN Failure(<<ValidationError(recipe_id, STR_url, "Missing image URL",
                                       PyNone)>>)
        ELSE ValidationResult(TRUE, transformed, <<>>)

\* ------------------------------------------------------------------------
\* process_recipe_fields
\* ------------------------------------------------------------------------

\* the two renames in the other order: procesedIngredients first
ProcessRenames_ProcessedFirst(recipe) ==
    LET renamed1 ==
            IF Has(recipe, "procesedIngredients")
            THEN SetItem(Pop(recipe, "procesedIngredients"), "ingredients",
                         recipe["procesedIngredients"])
            ELSE recipe
    IN  IF Has(renamed1, "ingredients") /\ ~Has(renamed1, "ingredientStrings")
           /\ IsInstance(renamed1["ingredients"], {"list"})
           /\ Truthy(renamed1["ingredients"])
           /\ IsInstance(renamed1["ingredients"].v[1], {"str"})
        THEN SetItem(Pop(renamed1, "ingredients"), "ingredientStrings",
                     renamed1["ingredients"])
        ELSE renamed1

\* the field renames; the caller's dict is rewritten in place
ProcessRenames(recipe) ==
    LET renamed1 ==
            IF Has(recipe, "ingredients") /\ ~Has(recipe, "ingredientStrings")
            THEN IF IsInstance(recipe["ingredients"], {"list"})
                    /\ Truthy(recipe["ingredients"])
                 THEN LET first_item == recipe["ingredients"].v[1]
                      IN  IF IsInstance(first_item, {"str"})
                          THEN SetItem(Pop(recipe, "ingredients"),
                                       "ingredientStrings", recipe["ingredients"])
                          ELSE recipe
                 ELSE recipe
            ELSE recipe
    IN  IF Has(renamed1, "procesedIngredients")
        THEN SetItem(Pop(renamed1, "procesedIngredients"), "ingredients",
                     renamed1["procesedIngredients"])
        ELSE renamed1

\* nutrients normalization
ProcessNutrients(recipe) ==
    IF Has(recipe, "nutrients")
    THEN LET nutrients == recipe["nutrients"]
         IN  IF IsInstance(nutrients, {"dict"})
             THEN SetItem(recipe, "nutrients", NutrientsArray(nutrients))
             ELSE IF ~IsInstance(nutrients, {"list"})
                  THEN SetItem(recipe, "nutrients", PyList(<<>>))
                  ELSE recipe
    ELSE recipe

\* numServings normalization
ProcessServings(recipe) ==
    IF Has(recipe, "numServings")
    THEN LET servings == recipe["numServings"]
         IN  IF IsInstance(servings, {"str"})
             THEN LET numbers == FindAll(servings.v)
                  IN  SetItem(recipe, "numServings",
                              IF numbers # <<>> THEN FloatOfToken(numbers[1])
                              ELSE PyNone)
             ELSE IF ~IsInstance(servings, {"int", "float"})
                  THEN SetItem(recipe, "numServings", PyNone)
                  ELSE recipe
    ELSE recipe

\* the dict the call leaves behind, which is also the object it returns
process_recipe_fields(recipe) ==
    ProcessServings(ProcessNutrients(ProcessRenames(recipe)))

\* ------------------------------------------------------------------------
\* The Recipe model
\* ------------------------------------------------------------------------

STR_displayString == PyStr(<<"d", "i", "s", "p", "l", "a", "y", "S", "t", "r", "i", "n", "g">>)

STR_unit == PyStr(<<"u", "n", "i", "t">>)

STR_foodCodes == PyStr(<<"f", "o", "o", "d", "C", "o", "d", "e", "s">>)

STR_Unknown == PyStr(<<"U", "n", "k", "n", "o", "w", "n">>)

STR_discover == PyStr(<<"d", "i", "s", "c", "o", "v", "e", "r">>)

\* d.get(key, default) of a nested dict
DictGet(d, key, default) ==
    IF \E i \in 1..Len(d.v) : d.v[i].k = key
    THEN d.v[CHOOSE i \in 1..Len(d.v) : d.v[i].k = key].val
    ELSE default

\* Recipe._normalize_nutrients
_normalize_nutrients(v) ==
    IF v = PyNone THEN PyList(<<>>)
    ELSE IF IsInstance(v, {"dict"}) THEN NutrientsArray(v)
    ELSE IF IsInstance(v, {"list"}) THEN v
    ELSE PyList(<<>>)

\* Recipe._normalize_servings
_normalize_servings(v) ==
    IF v = PyNone THEN PyNone
    ELSE IF IsInstance(v, {"int", "float"}) THEN FloatOfNumber(v)
    ELSE IF IsInstance(v, {"str"})
         THEN LET nums == FindAll(v.v)
              IN  IF nums # <<>> THEN FloatOfToken(nums[1]) ELSE PyNone
    ELSE PyNone

\* the ingredient_strings and structured_ingredients that from_raw chooses
FromRawIngredients(data) ==
    LET raw_ingredients == Get(data, "ingredients", PyNone)
        processed == Get(data, "procesedIngredients", PyNone)
        given == PyOr(Get(data, "ingredientStrings", PyNone), PyList(<<>>))
        ingredient_strings ==
            IF ~Truthy(given) /\ IsInstance(raw_ingredients, {"list"})
               /\ Truthy(raw_ingredients)
               /\ IsInstance(raw_ingredients.v[1], {"str"})
            THEN raw_ingredients
            ELSE given
        structured_ingredients ==
            IF IsInstance(processed, {"list"}) THEN processed
            ELSE IF IsInstance(raw_ingredients, {"list"}) /\ Truthy(raw_ingredients)
                    /\ IsInstance(raw_ingredients.v[1], {"dict"})
                 THEN raw_ingredients
                 ELSE PyList(<<>>)
    IN  [ingredient_strings |-> ingredient_strings,
         structured_ingredients |-> structured_ingredients]

\* the Ingredient built from a dict: the declared fields, others ignored
Ingredient(item) ==
    [t |-> "Ingredient",
     v |-> [quantity |-> DictGet(item, STR_quantity, PyNone),
            unit |-> DictGet(item, STR_unit, PyNone),
            displayString |-> DictGet(item, STR_displayString, PyNone),
            foodCodes |-> DictGet(item, STR_foodCodes, PyNone)]]

\* the Nutrient built from a dict
Nutrient(item) ==
    [t |-> "Nutrient",
     v |-> [name |-> DictGet(item, STR_name, PyNone),
            quantity |-> DictGet(item, STR_quantity, PyNone)]]

IsListOf(x, types) ==
    IsInstance(x, {"list"}) /\ \A i \in 1..Len(x.v) : IsInstance(x.v[i], types)

\* a dict that validates as Ingredient
IsIngredient(item) ==
    /\ IsInstance(item, {"dict"})
    /\ IsInstance(DictGet(item, STR_quantity, PyNone), {"NoneType", "int", "float"})
    /\ IsInstance(DictGet(item, STR_unit, PyNone), {"NoneType", "str"})
    /\ IsInstance(DictGet(item, STR_displayString, PyNone), {"NoneType", "str"})
    /\ IsInstance(DictGet(item, STR_foodCodes, PyNone), {"NoneType", "dict"})

\* a dict that validates as Nutrient
IsNutrient(item) ==
    /\ IsInstance(item, {"dict"})
    /\ IsInstance(DictGet(item, STR_name, PyNone), {"str"})
    /\ IsInstance(DictGet(item, STR_quantity, PyNone), {"str"})

\* the declared field types of Recipe, for the fields of the keyword
\* arguments kw after the two "before" validators have run
FieldTypesHold(kw) ==
    /\ IsInstance(kw.id, {"str"})
    /\ IsInstance(kw.uuid, {"str", "NoneType"})
    /\ IsInstance(kw.title, {"str"})
    /\ IsInstance(kw.url, {"str", "NoneType"})
    /\ IsListOf(kw.instructions, {"str"})
    /\ IsListOf(kw.ingredientStrings, {"str"})
    /\ IsInstance(kw.ingredients, {"list"})
    /\ \A i \in 1..Len(kw.ingredients.v) : IsIngredient(kw.ingredients.v[i])
    /\ IsListOf(kw.tags, {"str"})
    /\ IsInstance(kw.nutrients, {"list"})
    /\ \A i \in 1..Len(kw.nutrients.v) : IsNutrient(kw.nutrients.v[i])
    /\ IsInstance(kw.channel, {"str"})

RECURSIVE DisplayStrings(_)
\* [ing.displayString for ing in ingredients if ing.displayString]
DisplayStrings(ingredients) ==
    IF ingredients = <<>> THEN <<>>
    ELSE LET shown == Head(ingredients).v.displayString
         IN  (IF Truthy(shown) THEN <<shown>> ELSE <<>>)
             \o DisplayStrings(Tail(ingredients))

\* Recipe._ensure_ingredient_strings
_ensure_ingredient_strings(self) ==
    IF ~Truthy(self.ingredientStrings) /\ Truthy(self.ingredients)
    THEN [self EXCEPT !.ingredientStrings = PyList(DisplayStrings(self.ingredients.v))]
    ELSE self

\* Recipe(**kw): field validators, field types, model validator
Recipe(kw) ==
    LET before == [kw EXCEPT !.nutrients = _normalize_nutrients(kw.nutrients),
                             !.numServings = _normalize_servings(kw.numServings)]
    IN  IF ~FieldTypesHold(before) THEN Raise("ValidationError")
        ELSE _ensure_ingredient_strings(
                 [before EXCEPT !.ingredients =
                     PyList([i \in 1..Len(before.ingredients.v) |->
                                Ingredient(before.ingredients.v[i])]),
                                !.nutrients =
                     PyList([i \in 1..Len(before.nutrients.v) |->
                                Nutrient(before.nutrients.v[i])])])

\* Recipe.from_raw
from_raw(data) ==
    LET chosen == FromRawIngredients(data)
    IN  Recipe([t |-> "Recipe",
                id |-> PyOr(Get(data, "id", PyNone), Get(data, "recipe_id", PyNone)),
                uuid |-> Get(data, "uuid", PyNone),
                title |-> PyOr(Get(data, "title", PyNone), STR_Unknown),
                url |-> Get(data, "url", PyNone),
                instructions |-> PyOr(Get(data, "instructions", PyNone), PyList(<<>>)),
                ingredientStrings |-> chosen.ingredient_strings,
                ingredients |-> chosen.structured_ingredients,
                tags |-> PyOr(Get(data, "tags", PyNone), PyList(<<>>)),
                nutrients |-> Get(data, "nutrients", PyNone),
                numServings |-> Get(data, "numServings", PyNone),
                channel |-> PyOr(Get(data, "channel", PyNone), STR_discover)])

\* "; ".join(errors): the clauses with the separator between them
RECURSIVE Join(_, _)
Join(sep, errors) ==
    IF errors = <<>> THEN <<>>
    ELSE IF Len(errors) = 1 THEN <<errors[1]>>
    ELSE <<errors[1], sep>> \o Join(sep, Tail(errors))

\* raise ValueError(message)
ValueError(message) == [t |-> "raise", exc |-> "ValueError", message |-> message]

\* the checks without the one on uuid
RequiredErrors_NoUuid(self) ==
    (IF ~Truthy(self.id) THEN <<"id is required">> ELSE <<>>)
    \o (IF ~Truthy(self.title) THEN <<"title is required">> ELSE <<>>)
    \o (IF ~Truthy(self.ingredients)
        THEN <<"ingredients are required structured">> ELSE <<>>)
    \o (IF ~Truthy(self.ingredientStrings)
        THEN <<"ingredient strings are required">> ELSE <<>>)
    \o (IF ~Truthy(self.nutrients) THEN <<"nutrients are required">> ELSE <<>>)

\* the errors list of Recipe.validate, after its six checks
RequiredErrors(self) ==
    (IF ~Truthy(self.id) THEN <<"id is required">> ELSE <<>>)
    \o (IF ~Truthy(self.uuid) THEN <<"uuid is required">> ELSE <<>>)
    \o (IF ~Truthy(self.title) THEN <<"title is required">> ELSE <<>>)
    \o (IF ~Truthy(self.ingredients)
        THEN <<"ingredients are required structured">> ELSE <<>>)
    \o (IF ~Truthy(self.ingredientStrings)
        THEN <<"ingredient strings are required">> ELSE <<>>)
    \o (IF ~Truthy(self.nutrients) THEN <<"nutrients are required">> ELSE <<>>)

\* a validate that stops at its first violated requirement
validate_FirstErrorOnly(self) ==
    LET errors == RequiredErrors(self)
    IN  IF errors # <<>> THEN ValueError(<<errors[1]>>) ELSE PyNone

\* Recipe.validate: None, or the ValueError it raises
validate(self) ==
    LET errors == RequiredErrors(self)
    IN  IF errors # <<>> THEN ValueError(Join("; ", errors)) ELSE PyNone

\* Ingredient.model_dump() and Nutrient.model_dump(), inside Recipe.model_dump()
DumpItem(item) ==
    IF item.t = "Ingredient"
    THEN PyDict(<<Pair(STR_quantity, item.v.quantity), Pair(STR_unit, item.v.unit),
                  Pair(STR_displayString, item.v.displayString),
                  Pair(STR_foodCodes, item.v.foodCodes)>>)
    ELSE PyDict(<<Pair(STR_name, item.v.name), Pair(STR_quantity, item.v.quantity)>>)

\* Recipe.model_dump(): the dict of the model's fields
model_dump(self) ==
    [k \in Keys |->
        IF k \in {"ingredients", "nutrients"}
        THEN PyList([i \in 1..Len(self[k].v) |-> DumpItem(self[k].v[i])])
        ELSE IF k \in {"recipe_id", "procesedIngredients"} THEN Absent
        ELSE self[k]]

\* ------------------------------------------------------------------------
\* Input records
\* ------------------------------------------------------------------------

TXT_r1 == PyStr(<<"r", "1">>)

TXT_soup == PyStr(<<"s", "o", "u", "p">>)

TXT_boil == PyStr(<<"b", "o", "i", "l">>)

TXT_eggs == PyStr(<<"2", " ", "e", "g", "g", "s">>)

TXT_oil == PyStr(<<"o", "i", "l">>)

TXT_water == PyStr(<<"w", "a", "t", "e", "r">>)

TXT_http == PyStr(<<"h", "t", "t", "p">>)

\* a list of plain ingredient strings
PlainList == PyList(<<TXT_eggs, TXT_water>>)

\* another one, for ingredientStrings
DisplayList == PyList(<<TXT_oil>>)

\* structured ingredient lists
StructuredList ==
    PyList(<<PyDict(<<Pair(STR_displayString, TXT_eggs)>>),
             PyDict(<<Pair(STR_name, TXT_water)>>)>>)

ProcessedList == PyList(<<PyDict(<<Pair(STR_displayString, TXT_oil)>>)>>)

IdValues == {Absent, TXT_r1}

TagValues == {Absent, PyList(<<TXT_soup>>), TXT_soup}

InstructionValues == {Absent, PyList(<<TXT_boil>>), TXT_boil}

IngredientValues == {Absent, PlainList, StructuredList, PyList(<<>>), TXT_eggs}

IngredientStringValues == {Absent, DisplayList}

ProcessedValues == {Absent, ProcessedList, PlainList, TXT_oil}

UrlValues == {Absent, TXT_http}

NutrientNames == {PyStr(<<"f", "a", "t">>), PyStr(<<"p", "r", "o">>),
                  PyStr(<<"c", "a", "r", "b">>)}

QuantityValues == {PyInt(10), PyStr(<<"2", "0", "g">>), PyNone}

\* the mappings of at most MaxNutrients entries, keys distinct
NutrientDicts ==
    {PyDict(pairs) :
        pairs \in {p \in UNION {[1..n -> {Pair(k, q) : k \in NutrientNames,
                                                     q \in QuantityValues}] :
                                n \in 0..MaxNutrients} :
                     \A i, j \in 1..Len(p) : p[i].k = p[j].k => i = j}}

\* a nutrients value that already is the list form
NutrientList ==
    PyList(<<PyDict(<<Pair(STR_name, PyStr(<<"f", "a", "t">>)),
                      Pair(STR_quantity, PyStr(<<"1", "0">>))>>)>>)

NutrientValues == NutrientDicts \cup {NutrientList, PyNone, TXT_soup, PyInt(7)}

ServingChars == {"4", "0", ".", "s"}

ServingStrings ==
    {PyStr(chars) : chars \in UNION {[1..n -> ServingChars] : n \in 0..MaxStrLen}}

ServingValues ==
    ServingStrings \cup {PyNone, PyInt(6), PyFloat(25, 1), PyList(<<TXT_soup>>)}

\* the dict with the given items
Rec(items) == [k \in Keys |-> IF k \in DOMAIN items THEN items[k] ELSE Absent]

\* records of every key layout
LayoutRecords ==
    {Rec([id |-> i, tags |-> t, instructions |-> s, ingredients |-> g,
          ingredientStrings |-> d, procesedIngredients |-> p, url |-> u,
          nutrients |-> n, numServings |-> v]) :
        i \in IdValues, t \in TagValues, s \in InstructionValues,
        g \in IngredientValues, d \in IngredientStringValues,
        p \in ProcessedValues, u \in UrlValues,
        n \in {Absent, CHOOSE x \in NutrientDicts : Len(x.v) = 1},
        v \in {Absent, PyInt(6)}}

\* a record of the legacy layout that passes every check
LegacyRecord ==
    Rec([id |-> TXT_r1, tags |-> PyList(<<TXT_soup>>),
         instructions |-> PyList(<<TXT_boil>>), ingredients |-> PlainList,
         procesedIngredients |-> ProcessedList, url |-> TXT_http])

\* the legacy record with every shape of nutrients and of numServings
ShapeRecords ==
    {SetItem(LegacyRecord, "nutrients", n) : n \in NutrientValues}
    \cup {SetItem(LegacyRecord, "numServings", v) : v \in ServingValues}

TXT_u7 == PyStr(<<"u", "7">>)

EmptyStr == PyStr(<<>>)

\* records of the shapes Recipe.from_raw maps: with and without each of the
\* attributes Recipe.validate requires
ModelRecords ==
    {Rec([id |-> i, recipe_id |-> r, uuid |-> u, title |-> t,
          ingredients |-> g, ingredientStrings |-> s, procesedIngredients |-> p,
          nutrients |-> n]) :
        i \in {Absent, TXT_r1, EmptyStr}, r \in {Absent, TXT_r1},
        u \in {Absent, TXT_u7, EmptyStr}, t \in {Absent, TXT_soup, EmptyStr},
        g \in {Absent, PlainList, StructuredList},
        s \in IngredientStringValues, p \in {Absent, ProcessedList},
        n \in {Absent, NutrientList, PyDict(<<>>),
               PyDict(<<Pair(PyStr(<<"f", "a", "t">>), PyInt(10))>>)}}

Records == LayoutRecords \cup ShapeRecords \cup ModelRecords

\* a mapping that reads the display strings from the key ingredients
_map_local_to_firebase_FromIngredients(r) ==
    Rec([id |-> Get(r, "recipe_id", PyNone),
         title |-> Get(r, "title", PyNone),
         url |-> Get(r, "url", PyNone),
         instructions |-> Get(r, "instructions", PyList(<<>>)),
         ingredients |-> Get(r, "ingredients", PyList(<<>>)),
         procesedIngredients |-> Get(r, "procesedIngredients", PyList(<<>>)),
         tags |-> Get(r, "tags", PyList(<<>>)),
         nutrients |-> Get(r, "nutrients", PyList(<<>>)),
         numServings |-> Get(r, "numServings", PyNone),
         channel |-> STR_discover])

\* _map_local_to_firebase
_map_local_to_firebase(r) ==
    Rec([id |-> Get(r, "recipe_id", PyNone),
         title |-> Get(r, "title", PyNone),
         url |-> Get(r, "url", PyNone),
         instructions |-> Get(r, "instructions", PyList(<<>>)),
         ingredients |-> Get(r, "ingredientStrings", PyList(<<>>)),
         procesedIngredients |-> Get(r, "procesedIngredients", PyList(<<>>)),
         tags |-> Get(r, "tags", PyList(<<>>)),
         nutrients |-> Get(r, "nutrients", PyList(<<>>)),
         numServings |-> Get(r, "numServings", PyNone),
         channel |-> STR_discover])

\* ------------------------------------------------------------------------
\* A caller applying the functions to a record
\* ------------------------------------------------------------------------

VARIABLES
    input,      \* the record as the caller built it
    recipe,     \* the caller's dict object now
    op,         \* the function the caller applies
    ret         \* the values returned so far, as they were at the return

\* a run of a pipeline entry point, and the state of the module
\* plaite.firebase.client it runs in
VARIABLES
    call,           \* the entry point called and its arguments
    pc,             \* where the run is
    source,         \* the records as loaded, selected or scraped
    recipes,        \* the local list recipes
    uploaded_ids,   \* what get_uploaded_recipe_ids returned
    valid_recipes,  \* the local list valid_recipes
    result,         \* the UploadResult of the run
    upload_pos,     \* the records of valid_recipes the upload loop is past
    batch_count,    \* the local counter batch_count
    pending,        \* the ids of the documents set in the open write batch
    handed,         \* the ids of the documents set, in call order
    stored,         \* the commits that succeeded, each the ids of its documents
    exc,            \* the exception that left the entry point
    lookups,        \* the calls of get_uploaded_recipe_ids made by the run
    _app,           \* the module global _app
    init_calls,     \* the calls of firebase_admin.initialize_app since the
                    \* last reset_client, or since the process started
    handle          \* the app of the client the run writes through

pvars == <<call, pc, source, recipes, uploaded_ids, valid_recipes, result,
           upload_pos, batch_count, pending, handed, stored, exc, lookups,
           _app, init_calls, handle>>

vars == <<input, recipe, op, ret, pvars>>

\* no entry point is running
NoRun ==
    /\ call = <<>>
    /\ pc = "none"
    /\ source = <<>>
    /\ recipes = <<>>
    /\ uploaded_ids = {}
    /\ valid_recipes = <<>>
    /\ result = <<>>
    /\ upload_pos = 0
    /\ batch_count = 0
    /\ pending = <<>>
    /\ handed = <<>>
    /\ stored = <<>>
    /\ exc = ""
    /\ lookups = 0
    /\ _app = "None"
    /\ init_calls = 0
    /\ handle = "None"

Init ==
    /\ input \in Records
    /\ recipe = input
    /\ op = "none"
    /\ ret = <<>>
    /\ NoRun

\* result = validate_and_transform_recipe(recipe)
Validate ==
    /\ op = "none"
    /\ op' = "validate"
    /\ ret' = <<validate_and_transform_recipe(recipe)>>
    /\ UNCHANGED <<input, recipe, pvars>>

\* validate_and_transform_recipe(result.recipe), for a valid result
ValidateReturned ==
    /\ op = "validate"
    /\ Len(ret) = 1
    /\ ret[1].t = "ValidationResult"
    /\ ret[1].is_valid
    /\ ret' = Append(ret, validate_and_transform_recipe(ret[1].recipe))
    /\ UNCHANGED <<input, recipe, op, pvars>>

\* recipe = process_recipe_fields(recipe)
Process ==
    /\ op = "none"
    /\ op' = "process"
    /\ recipe' = process_recipe_fields(recipe)
    /\ ret' = <<recipe'>>
    /\ UNCHANGED <<input, pvars>>

\* process_recipe_fields applied to what it returned
ProcessReturned ==
    /\ op = "process"
    /\ Len(ret) = 1
    /\ recipe' = process_recipe_fields(recipe)
    /\ ret' = Append(ret, recipe')
    /\ UNCHANGED <<input, op, pvars>>

\* model = Recipe.from_raw(recipe)
FromRaw ==
    /\ op = "none"
    /\ op' = "from_raw"
    /\ ret' = <<from_raw(recipe)>>
    /\ UNCHANGED <<input, recipe, pvars>>

\* model.validate(), for the model Recipe.from_raw built
ValidateModel ==
    /\ op = "from_raw"
    /\ Len(ret) = 1
    /\ ret[1].t = "Recipe"
    /\ ret' = Append(ret, validate(ret[1]))
    /\ UNCHANGED <<input, recipe, op, pvars>>

\* validate_and_transform_recipe(_map_local_to_firebase(recipe)), for a
\* record of the local table
MapAndValidateRecord ==
    /\ op = "none"
    /\ op' = "map_validate"
    /\ ret' = <<validate_and_transform_recipe(_map_local_to_firebase(recipe))>>
    /\ UNCHANGED <<input, recipe, pvars>>

Next ==
    \/ Validate
    \/ ValidateReturned
    \/ Process
    \/ ProcessReturned
    \/ FromRaw
    \/ ValidateModel
    \/ MapAndValidateRecord

Spec == Init /\ [][Next]_vars

\* ------------------------------------------------------------------------
\* The pipeline entry points: what they are called with
\* ------------------------------------------------------------------------

MaxBatch == 3

MaxBatchSize == 2

TXT_r2 == PyStr(<<"r", "2">>)

TXT_r3 == PyStr(<<"r", "3">>)

TXT_r4 == PyStr(<<"r", "4">>)

TXT_featured == PyStr(<<"f", "e", "a", "t", "u", "r", "e", "d">>)

Entries == {"upload_from_file", "upload_from_local", "upload_from_url",
            "upload_recipes_to_firebase"}

\* the environments of FirebaseConfig
Envs == {"dev", "prod"}

\* a complete record, without its identifier
Complete ==
    Rec([uuid |-> TXT_u7, title |-> TXT_soup, tags |-> PyList(<<TXT_soup>>),
         instructions |-> PyList(<<TXT_boil>>), ingredientStrings |-> DisplayList,
         procesedIngredients |-> ProcessedList, nutrients |-> NutrientList,
         url |-> TXT_http])

\* the records a source holds, identified under key: two complete ones, the
\* second with a channel of its own, one without uuid and nutrients, one
\* whose tags is a string
Pool(key) ==
    {SetItem(Complete, key, TXT_r1),
     SetItem(SetItem(Complete, "channel", TXT_featured), key, TXT_r2),
     SetItem(Pop(Pop(Complete, "uuid"), "nutrients"), key, TXT_r3),
     SetItem(SetItem(Complete, "tags", TXT_soup), key, TXT_r4)}

\* the lists of at most n different records of S
RECURSIVE Lists(_, _)
Lists(S, n) ==
    IF n = 0 THEN {<<>>}
    ELSE LET shorter == Lists(S, n - 1)
         IN  shorter \cup {Append(l, r) : l \in shorter, r \in S}

Distinct(l) == \A j, k \in 1..Len(l) : j # k => l[j] # l[k]

Batches(key) == {l \in Lists(Pool(key), MaxBatch) : Distinct(l)}

\* the identifiers the remote store may hold
UploadedIdSets == SUBSET {TXT_r1, TXT_r3}

\* get_uploaded_recipe_ids(config): it returns the set of the identifiers in
\* the remote store, or raises
get_uploaded_recipe_ids ==
    {[raised |-> FALSE, ids |-> ids] : ids \in UploadedIdSets}
    \cup {[raised |-> TRUE, ids |-> {}]}

\* every source read under the key "id"
IdentifierKey_AlwaysId(entry) == "id"

\* the key a source identifies its records by
IdentifierKey(entry) ==
    IF entry \in {"upload_from_file", "upload_from_url"} THEN "id" ELSE "recipe_id"

\* what the entry point loads, selects or scrapes: for a URL one record, or
\* nothing when scrape_recipe returned None
Sources(entry) ==
    IF entry = "upload_from_url"
    THEN {l \in Batches(IdentifierKey(entry)) : Len(l) <= 1}
    ELSE Batches(IdentifierKey(entry))

\* the calls: upload_recipes_to_firebase has no dry_run parameter
Calls ==
    [entry : Entries, dry_run : BOOLEAN, exclude_uploaded : BOOLEAN,
     batch_size : 1..MaxBatchSize, env : Envs, url : {TXT_http}]
    \ {c \in [entry : {"upload_recipes_to_firebase"}, dry_run : {TRUE},
              exclude_uploaded : BOOLEAN, batch_size : 1..MaxBatchSize,
              env : Envs, url : {TXT_http}] : TRUE}

\* UploadResult(total_selected=n)
UploadResult(n) ==
    [total_selected |-> n, total_valid |-> 0, uploaded |-> 0,
     failed |-> <<>>, skipped |-> <<>>]

\* [f(x) for x in l]
Map(f(_), l) == [j \in 1..Len(l) |-> f(l[j])]

\* ------------------------------------------------------------------------
\* Duplicate filter
\* ------------------------------------------------------------------------

\* a filter that keeps every record
recipes_to_process_KeepsAll(rs, key, ids) == rs

\* [r for r in recipes if r.get(key) not in uploaded_ids]
recipes_to_process(rs, key, ids) ==
    SelectSeq(rs, LAMBDA r : Get(r, key, PyNone) \notin ids)

\* a filter that drops the uploaded records without recording them
SkippedEntries_NotRecorded(rs, key, ids) == <<>>

\* the entries the loop over recipes appends to result.skipped
SkippedEntries(rs, key, ids) ==
    LET entry(r) == [id |-> Get(r, key, PyNone)]
    IN  Map(entry, SelectSeq(rs, LAMBDA r : Get(r, key, PyNone) \in ids))

\* ------------------------------------------------------------------------
\* Validation loop
\* ------------------------------------------------------------------------

\* str(e) of the ValidationError pydantic raises
PydanticMessage == <<"validation error for Recipe">>

\* Recipe.from_raw(recipe); model.validate(); model.model_dump()
\* inside try ... except Exception as e
BuildModel(r) ==
    LET model == from_raw(r)
    IN  IF model.t = "raise"
        THEN [valid |-> FALSE, error |-> PydanticMessage, recipe |-> PyNone,
              raised |-> ""]
        ELSE LET checked == validate(model)
             IN  IF checked.t = "raise"
                 THEN [valid |-> FALSE, error |-> checked.message,
                       recipe |-> PyNone, raised |-> ""]
                 ELSE [valid |-> TRUE, error |-> <<>>, recipe |-> model_dump(model),
                       raised |-> ""]

\* validate_and_transform_recipe(_map_local_to_firebase(recipe)) and the
\* error message built from its errors
MapAndValidate(r) ==
    LET validation_result == validate_and_transform_recipe(_map_local_to_firebase(r))
        message(err) == err.error
    IN  IF validation_result.t = "raise"
        THEN [valid |-> FALSE, error |-> <<>>, recipe |-> PyNone,
              raised |-> validation_result.exc]
        ELSE IF validation_result.is_valid
        THEN [valid |-> TRUE, error |-> <<>>, recipe |-> validation_result.recipe,
              raised |-> ""]
        ELSE [valid |-> FALSE,
              error |-> Join("; ", Map(message, validation_result.errors)),
              recipe |-> PyNone, raised |-> ""]


\* ------------------------------------------------------------------------
\* A process that calls the pipeline entry points, one run after another
\* ------------------------------------------------------------------------

\* no record-level caller in this process
NoCaller ==
    /\ input = <<>>
    /\ recipe = <<>>
    /\ op = "pipeline"
    /\ ret = <<>>

\* the locals of a run before its first statement
FreshRun ==
    /\ recipes' = <<>>
    /\ uploaded_ids' = {}
    /\ valid_recipes' = <<>>
    /\ result' = <<>>
    /\ upload_pos' = 0
    /\ batch_count' = 0
    /\ pending' = <<>>
    /\ handed' = <<>>
    /\ stored' = <<>>
    /\ exc' = ""
    /\ lookups' = 0
    /\ handle' = "None"

PipelineInit ==
    /\ NoCaller
    /\ call = <<>>
    /\ pc = "idle"
    /\ source = <<>>
    /\ recipes = <<>>
    /\ uploaded_ids = {}
    /\ valid_recipes = <<>>
    /\ result = <<>>
    /\ upload_pos = 0
    /\ batch_count = 0
    /\ pending = <<>>
    /\ handed = <<>>
    /\ stored = <<>>
    /\ exc = ""
    /\ lookups = 0
    /\ _app = "None"
    /\ init_calls = 0
    /\ handle = "None"

\* the process calls an entry point; the source holds some records
Call ==
    /\ pc = "idle"
    /\ call' \in Calls
    /\ source' \in Sources(call'.entry)
    /\ pc' = "called"
    /\ FreshRun
    /\ UNCHANGED <<input, recipe, op, ret, _app, init_calls>>

\* load, select or scrape, and the early returns before the filter
Select ==
    /\ pc = "called"
    /\ recipes' = source
    /\ IF call.entry = "upload_from_url"
       THEN IF source = <<>>
            THEN /\ result' = [UploadResult(1) EXCEPT !.failed =
                                   <<[id |-> call.url, error |-> <<"Scraping failed">>]>>]
                 /\ pc' = "returned"
            ELSE /\ result' = UploadResult(1)
                 /\ pc' = "filter"
       ELSE IF call.entry \in {"upload_from_file", "upload_from_local"}
               /\ Len(source) = 0
            THEN /\ result' = UploadResult(0)
                 /\ pc' = "returned"
            ELSE /\ result' = UploadResult(Len(source))
                 /\ pc' = "filter"
    /\ UNCHANGED <<input, recipe, op, ret, lookups, init_calls, call, source, uploaded_ids,
                   valid_recipes, upload_pos, batch_count, pending, handed,
                   stored, exc, _app, handle>>

\* where the run goes after the filter has left rs to process
AfterFilter(rs) ==
    IF call.entry = "upload_from_url"
    THEN IF rs = <<>> THEN "returned" ELSE "validate"
    ELSE IF ~call.dry_run /\ rs = <<>> THEN "returned" ELSE "validate"

\* if exclude_uploaded: the lookup returns a set of ids, and the filter
Filter ==
    /\ pc = "filter"
    /\ IF call.exclude_uploaded
       THEN \E looked \in get_uploaded_recipe_ids :
               LET key == IdentifierKey(call.entry)
                   ids == looked.ids
               IN  /\ ~looked.raised
                   /\ uploaded_ids' = ids
                   /\ recipes' = recipes_to_process(recipes, key, ids)
                   /\ result' = [result EXCEPT !.skipped =
                                     result.skipped \o SkippedEntries(recipes, key, ids)]
       ELSE UNCHANGED <<uploaded_ids, recipes, result>>
    /\ lookups' = IF call.exclude_uploaded THEN lookups + 1 ELSE lookups
    /\ pc' = AfterFilter(recipes')
    /\ UNCHANGED <<input, recipe, op, ret, init_calls, call, source, valid_recipes,
                   upload_pos, batch_count, pending, handed, stored, exc,
                   _app, handle>>

\* a lookup wrapped in a try whose handler goes on with nothing to skip
LookupRaises_Swallowed ==
    /\ pc = "filter"
    /\ call.exclude_uploaded
    /\ \E looked \in get_uploaded_recipe_ids : looked.raised
    /\ pc' = AfterFilter(recipes)
    /\ exc' = "LookupFailure"
    /\ lookups' = lookups + 1
    /\ UNCHANGED <<input, recipe, op, ret, init_calls, call, source, recipes, uploaded_ids,
                   valid_recipes, result, upload_pos, batch_count, pending,
                   handed, stored, _app, handle>>

\* if exclude_uploaded: get_uploaded_recipe_ids(config) raises, outside any
\* try of the entry point
LookupRaises ==
    /\ pc = "filter"
    /\ call.exclude_uploaded
    /\ \E looked \in get_uploaded_recipe_ids : looked.raised
    /\ pc' = "raised"
    /\ exc' = "LookupFailure"
    /\ lookups' = lookups + 1
    /\ UNCHANGED <<input, recipe, op, ret, init_calls, call, source, recipes, uploaded_ids,
                   valid_recipes, result, upload_pos, batch_count, pending,
                   handed, stored, _app, handle>>

\* what validating one record of the run yields
Outcome(r) ==
    IF call.entry = "upload_recipes_to_firebase" THEN MapAndValidate(r)
    ELSE BuildModel(r)

\* the validation loop, and the returns that follow it
ValidateAll ==
    /\ pc = "validate"
    /\ LET key == IdentifierKey(call.entry)
           entry(r) == [id |-> Get(r, key, PyNone), error |-> Outcome(r).error]
           dumped(r) == Outcome(r).recipe
           passed == SelectSeq(recipes, LAMBDA r : Outcome(r).valid)
           refused == SelectSeq(recipes, LAMBDA r : ~Outcome(r).valid)
       IN  IF \E j \in 1..Len(recipes) : Outcome(recipes[j]).raised # ""
           THEN /\ pc' = "raised"
                /\ exc' = "KeyError"
                /\ UNCHANGED <<valid_recipes, result>>
           ELSE /\ exc' = exc
                /\ result' = [result EXCEPT !.failed = result.failed \o Map(entry, refused),
                                            !.total_valid = Len(passed)]
                /\ IF call.dry_run
                   THEN /\ valid_recipes' = valid_recipes
                        /\ pc' = "returned"
                   ELSE /\ valid_recipes' = Map(dumped, passed)
                        /\ pc' = IF passed = <<>> THEN "returned" ELSE "upload"
    /\ UNCHANGED <<input, recipe, op, ret, lookups, init_calls, call, source, recipes, uploaded_ids,
                   upload_pos, batch_count, pending, handed, stored, _app, handle>>

\* upload_batch(recipes=valid_recipes, ...): upload_batch has no parameter
\* recipes and its first parameter batch_path has no default, so the call
\* raises TypeError before the body of upload_batch runs
CallUploadBatch ==
    /\ pc = "upload"
    /\ call.entry # "upload_recipes_to_firebase"
    /\ pc' = "raised"
    /\ exc' = "TypeError"
    /\ UNCHANGED <<input, recipe, op, ret, lookups, init_calls, call, source, recipes, uploaded_ids,
                   valid_recipes, result, upload_pos, batch_count, pending,
                   handed, stored, _app, handle>>

\* an init_firebase without its test of the module global
init_firebase_NoGuard(app, env, credentials_exist) ==
    IF ~credentials_exist
    THEN [app |-> app, raised |-> "FileNotFoundError", initialized |-> 0]
    ELSE [app |-> env, raised |-> "", initialized |-> 1]

\* init_firebase(config): the module global afterwards, the exception
\* raised when the credentials file is not there, and the number of calls
\* of firebase_admin.initialize_app it made
init_firebase(app, env, credentials_exist) ==
    IF app # "None" THEN [app |-> app, raised |-> "", initialized |-> 0]
    ELSE IF ~credentials_exist
    THEN [app |-> app, raised |-> "FileNotFoundError", initialized |-> 0]
    ELSE [app |-> env, raised |-> "", initialized |-> 1]

\* db = get_client(config); collection = get_collection(config);
\* batch = db.batch(); batch_count = 0
GetClient ==
    /\ pc = "upload"
    /\ call.entry = "upload_recipes_to_firebase"
    /\ \E credentials_exist \in BOOLEAN :
          LET got == init_firebase(_app, call.env, credentials_exist)
          IN  /\ _app' = got.app
              /\ init_calls' = init_calls + got.initialized
              /\ IF got.raised # ""
                 THEN /\ pc' = "raised"
                      /\ exc' = got.raised
                      /\ handle' = handle
                 ELSE /\ pc' = "loop"
                      /\ exc' = exc
                      /\ handle' = got.app
    /\ batch_count' = 0
    /\ pending' = <<>>
    /\ UNCHANGED <<input, recipe, op, ret, lookups, call, source, recipes, uploaded_ids,
                   valid_recipes, result, upload_pos, handed, stored>>

\* str(e) of what batch.set and batch.commit raise
SetMessage == <<"set failed">>

CommitMessage == <<"commit failed">>

\* a batch that is committed only once it holds more than batch_size
BatchFull_Late(count) == count > call.batch_size

\* if batch_count >= upload_config.batch_size
BatchFull(count) == count >= call.batch_size

\* one pass of the upload loop: the document set, and the commit when the
\* batch is full, inside try ... except Exception
SetDocument ==
    /\ pc = "loop"
    /\ upload_pos < Len(valid_recipes)
    /\ LET r == valid_recipes[upload_pos + 1]
           failure(message) == [id |-> Get(r, "id", PyNone), error |-> message]
       IN  /\ handed' = Append(handed, r["id"])
           /\ \E set_ok, commit_ok \in BOOLEAN :
                 IF ~set_ok
                 THEN /\ result' = [result EXCEPT !.failed = Append(@, failure(SetMessage))]
                      /\ UNCHANGED <<batch_count, pending, stored>>
                 ELSE IF ~BatchFull(batch_count + 1)
                 THEN /\ batch_count' = batch_count + 1
                      /\ pending' = Append(pending, r["id"])
                      /\ UNCHANGED <<result, stored>>
                 ELSE IF commit_ok
                 THEN /\ result' = [result EXCEPT !.uploaded = @ + batch_count + 1]
                      /\ stored' = Append(stored, Append(pending, r["id"]))
                      /\ pending' = <<>>
                      /\ batch_count' = 0
                 ELSE /\ result' = [result EXCEPT !.failed = Append(@, failure(CommitMessage))]
                      /\ batch_count' = batch_count + 1
                      /\ pending' = Append(pending, r["id"])
                      /\ stored' = stored
    /\ upload_pos' = upload_pos + 1
    /\ UNCHANGED <<input, recipe, op, ret, lookups, init_calls, call, source, recipes, uploaded_ids,
                   valid_recipes, pc, exc, _app, handle>>

\* after the loop: if batch_count > 0, the commit of what remains, outside
\* any try; then return result
FinalCommit ==
    /\ pc = "loop"
    /\ upload_pos = Len(valid_recipes)
    /\ IF batch_count > 0
       THEN \E commit_ok \in BOOLEAN :
               IF commit_ok
               THEN /\ result' = [result EXCEPT !.uploaded = @ + batch_count]
                    /\ stored' = Append(stored, pending)
                    /\ pc' = "returned"
                    /\ exc' = exc
               ELSE /\ pc' = "raised"
                    /\ exc' = "CommitFailure"
                    /\ UNCHANGED <<result, stored>>
       ELSE /\ pc' = "returned"
            /\ UNCHANGED <<result, stored, exc>>
    /\ UNCHANGED <<input, recipe, op, ret, lookups, init_calls, call, source, recipes, uploaded_ids,
                   valid_recipes, upload_pos, batch_count, pending, handed,
                   _app, handle>>

\* ------------------------------------------------------------------------
\* upload_batch of plaite.firebase.upload, called on a batch file
\* ------------------------------------------------------------------------

\* the calls of upload_batch(batch_path, config, upload_config, dry_run=...)
\* without images_dir and image_mapping
BatchCalls ==
    [entry : {"upload_batch"}, dry_run : BOOLEAN, exclude_uploaded : {FALSE},
     batch_size : 1..MaxBatchSize, env : Envs, url : {TXT_http}]

\* results = {"total": n, "success": 0, "failed": [], "skipped": []}
BatchResults(n) ==
    [total |-> n, success |-> 0, failed |-> <<>>, skipped |-> <<>>]

\* required_fields of validate_recipe
required_fields == <<"id", "title", "tags", "instructions", "ingredients">>

\* validate_recipe(recipe): (is_valid, error) of the first field that is
\* missing or, for tags, instructions and ingredients, is not a list
validate_recipe(r) ==
    LET wrong(k) == \/ ~Has(r, k)
                    \/ /\ k \in {"tags", "instructions", "ingredients"}
                       /\ ~IsInstance(r[k], {"list"})
        bad == {j \in 1..Len(required_fields) : wrong(required_fields[j])}
        first == CHOOSE j \in bad : \A k \in bad : j <= k
    IN  IF bad = {} THEN [is_valid |-> TRUE, error |-> <<>>]
        ELSE IF ~Has(r, required_fields[first])
        THEN [is_valid |-> FALSE,
              error |-> <<"Missing required field: ", required_fields[first]>>]
        ELSE [is_valid |-> FALSE,
              error |-> <<required_fields[first], " must be a list">>]

\* recipe["channel"] = recipe.get("channel", "discover")
SetChannel(r) == SetItem(r, "channel", Get(r, "channel", STR_discover))

\* the process calls upload_batch on a batch file
CallBatch ==
    /\ pc = "idle"
    /\ call' \in BatchCalls
    /\ source' \in Batches("id")
    /\ pc' = "batch_called"
    /\ FreshRun
    /\ UNCHANGED <<input, recipe, op, ret, _app, init_calls>>

\* batch = load_batch(batch_path); results = {...};
\* db = get_client(config); collection = get_collection(config)
BatchClient ==
    /\ pc = "batch_called"
    /\ recipes' = source
    /\ result' = BatchResults(Len(source))
    /\ \E credentials_exist \in BOOLEAN :
          LET got == init_firebase(_app, call.env, credentials_exist)
          IN  /\ _app' = got.app
              /\ init_calls' = init_calls + got.initialized
              /\ IF got.raised # ""
                 THEN /\ pc' = "batch_raised"
                      /\ exc' = got.raised
                      /\ handle' = handle
                 ELSE /\ pc' = "batch_validate"
                      /\ exc' = exc
                      /\ handle' = got.app
    /\ UNCHANGED <<input, recipe, op, ret, lookups, call, source, uploaded_ids,
                   valid_recipes, upload_pos, batch_count, pending, handed,
                   stored>>

\* an upload_batch whose dry run goes on to the upload loop
AfterBatchValidate_Uploads == "batch_loop"

\* if dry_run: return results
AfterBatchValidate ==
    IF call.dry_run THEN "batch_returned" ELSE "batch_loop"

\* the loop over batch: process_recipe_fields, validate_recipe, the channel;
\* then the return of a dry run, or firestore_batch = db.batch()
BatchValidate ==
    /\ pc = "batch_validate"
    /\ LET processed == Map(process_recipe_fields, recipes)
           entry(r) == [id |-> Get(r, "id", PyNone), error |-> validate_recipe(r).error]
           passed == SelectSeq(processed, LAMBDA r : validate_recipe(r).is_valid)
           refused == SelectSeq(processed, LAMBDA r : ~validate_recipe(r).is_valid)
       IN  /\ recipes' = processed
           /\ result' = [result EXCEPT !.failed = @ \o Map(entry, refused)]
           /\ valid_recipes' = Map(SetChannel, passed)
    /\ pc' = AfterBatchValidate
    /\ batch_count' = 0
    /\ pending' = <<>>
    /\ UNCHANGED <<input, recipe, op, ret, lookups, init_calls, call, source,
                   uploaded_ids, upload_pos, handed, stored, exc, _app, handle>>

\* one pass of the upload loop of upload_batch
BatchSetDocument ==
    /\ pc = "batch_loop"
    /\ upload_pos < Len(valid_recipes)
    /\ LET r == valid_recipes[upload_pos + 1]
           failure(message) == [id |-> Get(r, "id", PyNone), error |-> message]
       IN  /\ handed' = Append(handed, r["id"])
           /\ \E set_ok, commit_ok \in BOOLEAN :
                 IF ~set_ok
                 THEN /\ result' = [result EXCEPT !.failed = Append(@, failure(SetMessage))]
                      /\ UNCHANGED <<batch_count, pending, stored>>
                 ELSE IF ~BatchFull(batch_count + 1)
                 THEN /\ batch_count' = batch_count + 1
                      /\ pending' = Append(pending, r["id"])
                      /\ UNCHANGED <<result, stored>>
                 ELSE IF commit_ok
                 THEN /\ result' = [result EXCEPT !.success = @ + batch_count + 1]
                      /\ stored' = Append(stored, Append(pending, r["id"]))
                      /\ pending' = <<>>
                      /\ batch_count' = 0
                 ELSE /\ result' = [result EXCEPT !.failed = Append(@, failure(CommitMessage))]
                      /\ batch_count' = batch_count + 1
                      /\ pending' = Append(pending, r["id"])
                      /\ stored' = stored
    /\ upload_pos' = upload_pos + 1
    /\ UNCHANGED <<input, recipe, op, ret, lookups, init_calls, call, source,
                   recipes, uploaded_ids, valid_recipes, pc, exc, _app, handle>>

\* after the loop of upload_batch: the commit of what remains, outside any
\* try; then return results
BatchFinalCommit ==
    /\ pc = "batch_loop"
    /\ upload_pos = Len(valid_recipes)
    /\ IF batch_count > 0
       THEN \E commit_ok \in BOOLEAN :
               IF commit_ok
               THEN /\ result' = [result EXCEPT !.success = @ + batch_count]
                    /\ stored' = Append(stored, pending)
                    /\ pc' = "batch_returned"
                    /\ exc' = exc
               ELSE /\ pc' = "batch_raised"
                    /\ exc' = "CommitFailure"
                    /\ UNCHANGED <<result, stored>>
       ELSE /\ pc' = "batch_returned"
            /\ UNCHANGED <<result, stored, exc>>
    /\ UNCHANGED <<input, recipe, op, ret, lookups, init_calls, call, source,
                   recipes, uploaded_ids, valid_recipes, upload_pos,
                   batch_count, pending, handed, _app, handle>>

\* between two runs the process calls init_firebase(config), directly or as
\* the first statement of get_client, get_collection (through get_client)
\* or get_storage_bucket
InitFirebase ==
    /\ pc = "idle"
    /\ \E env \in Envs, credentials_exist \in BOOLEAN :
          LET got == init_firebase(_app, env, credentials_exist)
          IN  /\ _app' = got.app
              /\ init_calls' = init_calls + got.initialized
              /\ exc' = got.raised
    /\ UNCHANGED <<input, recipe, op, ret, call, pc, source, recipes,
                   uploaded_ids, valid_recipes, result, upload_pos,
                   batch_count, pending, handed, stored, lookups, handle>>

\* between two runs the process calls reset_client()
ResetClient ==
    /\ pc = "idle"
    /\ _app' = IF _app # "None" THEN "None" ELSE _app
    /\ init_calls' = 0
    /\ exc' = ""
    /\ UNCHANGED <<input, recipe, op, ret, call, pc, source, recipes,
                   uploaded_ids, valid_recipes, result, upload_pos,
                   batch_count, pending, handed, stored, lookups, handle>>

\* the caller has the result or the exception; the process goes on
Done ==
    /\ pc \in {"returned", "raised", "batch_returned", "batch_raised"}
    /\ pc' = "idle"
    /\ call' = <<>>
    /\ source' = <<>>
    /\ FreshRun
    /\ UNCHANGED <<input, recipe, op, ret, _app, init_calls>>

PipelineNext ==
    \/ Call
    \/ Select
    \/ Filter
    \/ LookupRaises
    \/ ValidateAll
    \/ CallUploadBatch
    \/ GetClient
    \/ SetDocument
    \/ FinalCommit
    \/ CallBatch
    \/ BatchClient
    \/ BatchValidate
    \/ BatchSetDocument
    \/ BatchFinalCommit
    \/ InitFirebase
    \/ ResetClient
    \/ Done

PipelineSpec == PipelineInit /\ [][PipelineNext]_vars

\* ------------------------------------------------------------------------
\* The data loader: filter_recipes and get_batch_of_recipes
\* ------------------------------------------------------------------------

\* the largest count asked for, and the most entries of a filter dict
MaxCount == 3

MaxFilters == 2

\* the column names of the dataset, as the strings the keys are cut from
COL_recipe_id == <<"r", "e", "c", "i", "p", "e", "_", "i", "d">>

COL_title == <<"t", "i", "t", "l", "e">>

COL_healthGrade == <<"h", "e", "a", "l", "t", "h", "G", "r", "a", "d", "e">>

COL_healthScore == <<"h", "e", "a", "l", "t", "h", "S", "c", "o", "r", "e">>

COL_ratings == <<"r", "a", "t", "i", "n", "g", "s">>

\* recipes_table.scan().collect_schema()
schema == {COL_recipe_id, COL_title, COL_healthGrade, COL_healthScore, COL_ratings}

\* the field of a row that a column name of the schema names
FieldOf(col_name) ==
    CASE col_name = COL_recipe_id -> "recipe_id"
      [] col_name = COL_title -> "title"
      [] col_name = COL_healthGrade -> "healthGrade"
      [] col_name = COL_healthScore -> "healthScore"
      [] col_name = COL_ratings -> "ratings"

\* the rows of the dataset, in dataset order; ratings in tenths
recipes_table ==
    <<[recipe_id |-> "r1", title |-> <<"S", "o", "u", "p">>, healthGrade |-> "A",
       healthScore |-> 80, ratings |-> 45],
      [recipe_id |-> "r2", title |-> <<"s", "t", "e", "w">>, healthGrade |-> "B",
       healthScore |-> 60, ratings |-> 40],
      [recipe_id |-> "r3", title |-> <<"s", "o", "u", "p">>, healthGrade |-> "A",
       healthScore |-> 70, ratings |-> 35],
      [recipe_id |-> "r4", title |-> <<"S", "t", "e", "w">>, healthGrade |-> "B",
       healthScore |-> 90, ratings |-> 50]>>

\* the operator names of filter_recipes
OP_eq == <<"e", "q">>

OP_ne == <<"n", "e">>

OP_lt == <<"l", "t">>

OP_le == <<"l", "e">>

OP_gt == <<"g", "t">>

OP_ge == <<"g", "e">>

OP_in == <<"i", "n">>

OP_contains == <<"c", "o", "n", "t", "a", "i", "n", "s">>

\* the keys the callers write
KEY_healthGrade == COL_healthGrade

KEY_recipe_id == COL_recipe_id

KEY_healthGrade__eq == <<"h", "e", "a", "l", "t", "h", "G", "r", "a", "d", "e", "_", "_", "e", "q">>

KEY_healthGrade__ne == <<"h", "e", "a", "l", "t", "h", "G", "r", "a", "d", "e", "_", "_", "n", "e">>

KEY_healthGrade__in == <<"h", "e", "a", "l", "t", "h", "G", "r", "a", "d", "e", "_", "_", "i", "n">>

KEY_healthScore__lt == <<"h", "e", "a", "l", "t", "h", "S", "c", "o", "r", "e", "_", "_", "l", "t">>

KEY_healthScore__le == <<"h", "e", "a", "l", "t", "h", "S", "c", "o", "r", "e", "_", "_", "l", "e">>

KEY_healthScore__gt == <<"h", "e", "a", "l", "t", "h", "S", "c", "o", "r", "e", "_", "_", "g", "t">>

KEY_healthScore__ge == <<"h", "e", "a", "l", "t", "h", "S", "c", "o", "r", "e", "_", "_", "g", "e">>

KEY_ratings__gte == <<"r", "a", "t", "i", "n", "g", "s", "_", "_", "g", "t", "e">>

KEY_title__contains == <<"t", "i", "t", "l", "e", "_", "_", "c", "o", "n", "t", "a", "i", "n", "s">>

KEY_calories == <<"c", "a", "l", "o", "r", "i", "e", "s">>

KEY_healthScore__between == <<"h", "e", "a", "l", "t", "h", "S", "c", "o", "r", "e", "_", "_", "b", "e", "t", "w", "e", "e", "n">>

\* one entry of a filter dict
Item(key, value) == [key |-> key, value |-> value]

\* the entries the callers write: each key with values of its column's type
Items ==
    {Item(KEY_healthGrade, "A"), Item(KEY_healthGrade, "B"),
     Item(KEY_recipe_id, "r2"),
     Item(KEY_healthGrade__eq, "A"), Item(KEY_healthGrade__ne, "A"),
     Item(KEY_healthGrade__in, <<"A", "B">>), Item(KEY_healthGrade__in, <<"B">>),
     Item(KEY_healthScore__lt, 70), Item(KEY_healthScore__le, 70),
     Item(KEY_healthScore__gt, 70), Item(KEY_healthScore__ge, 70),
     Item(KEY_ratings__gte, 40),
     Item(KEY_title__contains, <<"s", "o", "u">>),
     Item(KEY_calories, 100),
     Item(KEY_healthScore__between, 70)}

\* the filter dicts: at most MaxFilters entries, in insertion order, no key
\* twice
Queries ==
    {q \in Lists(Items, MaxFilters) :
        \A j, k \in 1..Len(q) : j # k => q[j].key # q[k].key}

\* the places of key where "__" starts
Separators(key) ==
    {j \in 1..(Len(key) - 1) : key[j] = "_" /\ key[j + 1] = "_"}

\* col_name, op = key.rsplit("__", 1) if "__" in key else (key, "eq")
SplitKey(key) ==
    IF Separators(key) = {} THEN [col_name |-> key, op |-> OP_eq]
    ELSE LET last == CHOOSE j \in Separators(key) :
                         \A k \in Separators(key) : k <= j
         IN  [col_name |-> SubSeq(key, 1, last - 1),
              op |-> SubSeq(key, last + 2, Len(key))]

\* the operators filter_recipes has a branch for
Operators == {OP_eq, OP_ne, OP_lt, OP_le, OP_gt, OP_ge, OP_in, OP_contains}

\* col.str.contains(pattern) for a pattern without regex metacharacters:
\* pattern occurs in text, letter case included
StrContains(text, pattern) ==
    \E j \in 0..(Len(text) - Len(pattern)) :
        SubSeq(text, j + 1, j + Len(pattern)) = pattern

\* the polars expression of one entry, on the value x of its column
Compare(operator, x, value) ==
    CASE operator = OP_eq -> x = value
      [] operator = OP_ne -> x # value
      [] operator = OP_lt -> x < value
      [] operator = OP_le -> x <= value
      [] operator = OP_gt -> x > value
      [] operator = OP_ge -> x >= value
      [] operator = OP_in -> \E k \in 1..Len(value) : value[k] = x
      [] operator = OP_contains -> StrContains(x, value)

\* a pl.DataFrame of the dataset's columns
DataFrame(rows) == [t |-> "DataFrame", columns |-> schema, rows |-> rows]

\* filter_recipes(filters): the entries are taken in order, and the first
\* one of an unknown column or operator raises
filter_recipes(filters) ==
    LET parts(j) == SplitKey(filters[j].key)
        unknown_column(j) == parts(j).col_name \notin schema
        unknown_operator(j) == parts(j).op \notin Operators
        wrong == {j \in 1..Len(filters) : unknown_column(j) \/ unknown_operator(j)}
        first == CHOOSE j \in wrong : \A k \in wrong : j <= k
        kept(row) ==
            \A j \in 1..Len(filters) :
                Compare(parts(j).op, row[FieldOf(parts(j).col_name)], filters[j].value)
    IN  IF wrong # {}
        THEN IF unknown_column(first)
             THEN ValueError(<<"Unknown column: ">> \o parts(first).col_name)
             ELSE ValueError(<<"Unknown operator: ">> \o parts(first).op)
        ELSE DataFrame(SelectSeq(recipes_table, kept))

\* df.head(count)
head(df, count) ==
    [df EXCEPT !.rows = SubSeq(@, 1, IF count < Len(@) THEN count ELSE Len(@))]

\* get_batch_of_recipes(count, query): what it returns or raises, and
\* whether it collected the rows of the dataset
get_batch_of_recipes(count, query) ==
    IF count < 0
    THEN [result |-> ValueError(<<"count must be non-negative">>), collected |-> FALSE]
    ELSE IF count = 0
    THEN [result |-> DataFrame(<<>>), collected |-> FALSE]
    ELSE LET df == IF query # <<>> THEN filter_recipes(query)
                   ELSE DataFrame(recipes_table)
         IN  IF df.t = "raise" THEN [result |-> df, collected |-> FALSE]
             ELSE [result |-> head(df, count), collected |-> TRUE]

\* a caller of the data module: a count and a filter dict
DataInit ==
    /\ input \in [count : (-1)..MaxCount, query : Queries]
    /\ recipe = <<>>
    /\ op = "none"
    /\ ret = <<>>
    /\ NoRun

\* ret = filter_recipes(query)
FilterRecipes ==
    /\ op = "none"
    /\ op' = "filter_recipes"
    /\ ret' = <<filter_recipes(input.query)>>
    /\ UNCHANGED <<input, recipe, pvars>>

\* ret = get_batch_of_recipes(count, query)
GetBatchOfRecipes ==
    /\ op = "none"
    /\ op' = "get_batch_of_recipes"
    /\ ret' = <<get_batch_of_recipes(input.count, input.query)>>
    /\ UNCHANGED <<input, recipe, pvars>>

DataNext ==
    \/ FilterRecipes
    \/ GetBatchOfRecipes

DataSpec == DataInit /\ [][DataNext]_vars

\* ------------------------------------------------------------------------
\* Properties
\* ------------------------------------------------------------------------

\* the first call of op has returned
Returned(f) == op = f /\ Len(ret) >= 1

\* x is a failed ValidationResult of exactly one error, on the given field
FailsOn(x, field) ==
    /\ x.t = "ValidationResult"
    /\ x.is_valid = FALSE
    /\ x.recipe = PyNone
    /\ Len(x.errors) = 1
    /\ x.errors[1].field = field

\* C1: a record that, after the ingredient renames, lacks one of tags,
\* instructions, ingredients is rejected: is_valid is False, recipe is None
\* and errors has exactly one entry.
C1_MissingRequiredRejected ==
    (Returned("validate")
       /\ \E k \in {"tags", "instructions", "ingredients"} :
              ~Has(RenameFields(input), k))
    => /\ ret[1].t = "ValidationResult"
       /\ ret[1].is_valid = FALSE
       /\ ret[1].recipe = PyNone
       /\ Len(ret[1].errors) = 1

\* a record that lacks only ingredients has been rejected
C1_Witness ==
    /\ Returned("validate")
    /\ IsInstance(input["tags"], {"list"})
    /\ IsInstance(input["instructions"], {"list"})
    /\ Has(input, "url")
    /\ ~Has(RenameFields(input), "ingredients")
    /\ ret[1].t = "ValidationResult"
    /\ ret[1].is_valid = FALSE

\* C2 as stated: whenever tags is present and not a list the single error
\* is the one on field 'tags', whatever instructions and ingredients are,
\* absent included.
C2_TagsCheckedFirst ==
    (Returned("validate") /\ Has(input, "tags")
       /\ ~IsInstance(input["tags"], {"list"}))
    => FailsOn(ret[1], STR_tags)

\* C2 amended: when tags, instructions and (after the renames) ingredients
\* are all present and tags is not a list, the single error is the one on
\* field 'tags', whatever the types of instructions and ingredients.
C2_TagsTypeCheckedFirst ==
    (Returned("validate") /\ Has(input, "tags")
       /\ ~IsInstance(input["tags"], {"list"})
       /\ Has(input, "instructions")
       /\ Has(input, "procesedIngredients"))
    => FailsOn(ret[1], STR_tags)

\* tags, instructions and ingredients are all present and none is a list;
\* the error reported is the one on tags
C2_Witness ==
    /\ Returned("validate")
    /\ Has(input, "tags") /\ ~IsInstance(input["tags"], {"list"})
    /\ Has(input, "instructions") /\ ~IsInstance(input["instructions"], {"list"})
    /\ Has(input, "procesedIngredients")
    /\ ~IsInstance(input["procesedIngredients"], {"list"})
    /\ FailsOn(ret[1], STR_tags)

\* C3: in every outcome is_valid is False exactly when recipe is None; a
\* failed result carries exactly one error, a successful one no error and a
\* recipe.
C3_ResultShape ==
    op = "validate" =>
        \A i \in 1..Len(ret) :
            /\ ret[i].t = "ValidationResult"
            /\ (ret[i].is_valid = FALSE) <=> (ret[i].recipe = PyNone)
            /\ ~ret[i].is_valid => Len(ret[i].errors) = 1
            /\ ret[i].is_valid => ret[i].errors = <<>> /\ ret[i].recipe # PyNone

\* a successful outcome, and a failed one for the record it returned
C3_Witness ==
    /\ op = "validate"
    /\ Len(ret) = 2
    /\ ret[1].is_valid /\ ret[1].recipe # PyNone
    /\ ~ret[2].is_valid /\ ret[2].recipe = PyNone

\* C4: a record whose tags, instructions and procesedIngredients (the
\* ingredients after the rename) are lists and that has no url is rejected
\* with the one error on field 'url'; the url error is reported only when
\* the three type checks have passed.
C4_MissingUrlRejected ==
    Returned("validate") =>
        /\ (/\ IsInstance(input["tags"], {"list"})
            /\ IsInstance(input["instructions"], {"list"})
            /\ IsInstance(input["procesedIngredients"], {"list"})
            /\ ~Has(input, "url"))
           => FailsOn(ret[1], STR_url)
        /\ FailsOn(ret[1], STR_url)
           => /\ IsInstance(input["tags"], {"list"})
              /\ IsInstance(input["instructions"], {"list"})
              /\ IsInstance(input["procesedIngredients"], {"list"})

\* a record without url whose nutrients mapping would have been converted
C4_Witness ==
    /\ Returned("validate")
    /\ ~Has(input, "url")
    /\ IsInstance(input["nutrients"], {"dict"})
    /\ FailsOn(ret[1], STR_url)

\* C5: process_recipe_fields applied to what it returned changes nothing.
C5_ProcessIdempotent ==
    (op = "process" /\ Len(ret) = 2) => ret[2] = ret[1]

\* C6: validate_and_transform_recipe applied to the recipe it returned is
\* valid again and returns the same record.
C6_ValidateIdempotent ==
    (op = "validate" /\ Len(ret) = 2)
    => /\ ret[2].t = "ValidationResult"
       /\ ret[2].is_valid
       /\ ret[2].recipe = ret[1].recipe

\* C7: a record that already has ingredientStrings keeps its value, in
\* process_recipe_fields and in validate_and_transform_recipe.
C7_IngredientStringsKept ==
    Has(input, "ingredientStrings") =>
        /\ Returned("process")
           => ret[1]["ingredientStrings"] = input["ingredientStrings"]
        /\ (Returned("validate") /\ ret[1].t = "ValidationResult"
              /\ ret[1].is_valid)
           => ret[1].recipe["ingredientStrings"] = input["ingredientStrings"]

\* ingredients is a non-empty list of plain strings, procesedIngredients a
\* structured list, and there is no ingredientStrings
BothIngredientForms(r) ==
    /\ IsListOf(r["ingredients"], {"str"}) /\ Truthy(r["ingredients"])
    /\ IsListOf(r["procesedIngredients"], {"dict"})
    /\ ~Has(r, "ingredientStrings")

\* the dict d has ingredientStrings S, ingredients P and no procesedIngredients
RenamedTo(d, S, P) ==
    /\ d["ingredientStrings"] = S
    /\ d["ingredients"] = P
    /\ ~Has(d, "procesedIngredients")

\* C8: with ingredients = plain strings S, procesedIngredients = structured
\* P and no ingredientStrings, normalization yields ingredientStrings = S,
\* ingredients = P and no procesedIngredients; from_raw chooses S as the
\* ingredient strings and P as the structured ingredients of the model.
C8_RenamePrecedence ==
    BothIngredientForms(input) =>
        LET S == input["ingredients"]
            P == input["procesedIngredients"]
        IN  /\ Returned("process") => RenamedTo(ret[1], S, P)
            /\ (Returned("validate") /\ ret[1].t = "ValidationResult"
                  /\ ret[1].is_valid)
               => RenamedTo(ret[1].recipe, S, P)
            /\ Returned("from_raw")
               => /\ FromRawIngredients(input).ingredient_strings = S
                  /\ FromRawIngredients(input).structured_ingredients = P
            /\ (Returned("from_raw") /\ ret[1].t = "Recipe")
               => /\ ret[1].ingredientStrings = S
                  /\ Len(ret[1].ingredients.v) = Len(P.v)
                  /\ \A i \in 1..Len(P.v) :
                        ret[1].ingredients.v[i].v.displayString
                            = DictGet(P.v[i], STR_displayString, PyNone)

\* process_recipe_fields has renamed a record holding both forms
C8_Witness ==
    /\ BothIngredientForms(input)
    /\ Returned("process")
    /\ ret[1]["ingredientStrings"] = PlainList
    /\ ret[1]["ingredients"] = ProcessedList

\* out is the nutrients value the rule prescribes for the value v: the
\* {name, quantity: str(value)} entries in the order of a mapping, a list
\* itself, the empty list for anything else
NutrientsAsRuled(v, out) ==
    /\ IsInstance(v, {"dict"})
       => /\ IsInstance(out, {"list"})
          /\ Len(out.v) = Len(v.v)
          /\ \A i \in 1..Len(v.v) :
                /\ IsInstance(out.v[i], {"dict"})
                /\ Len(out.v[i].v) = 2
                /\ DictGet(out.v[i], STR_name, PyNone) = v.v[i].k
                /\ DictGet(out.v[i], STR_quantity, PyNone) = PyStrOf(v.v[i].val)
    /\ IsInstance(v, {"list"}) => out = v
    /\ ~IsInstance(v, {"dict", "list"}) => out = PyList(<<>>)

\* C9: a nutrients mapping becomes the list of {name, quantity: str(value)}
\* in the mapping's order, a list stays as it is, anything else (None too)
\* becomes the empty list; in validate_and_transform_recipe, in
\* process_recipe_fields and in the nutrients validator of Recipe, whose
\* result the model holds as Nutrient objects.
C9_NutrientsNormalized ==
    /\ (Returned("process") /\ Has(input, "nutrients"))
       => NutrientsAsRuled(input["nutrients"], ret[1]["nutrients"])
    /\ (Returned("validate") /\ Has(input, "nutrients")
          /\ ret[1].t = "ValidationResult" /\ ret[1].is_valid)
       => NutrientsAsRuled(input["nutrients"], ret[1].recipe["nutrients"])
    /\ Returned("from_raw")
       => LET v == Get(input, "nutrients", PyNone)
              out == _normalize_nutrients(v)
          IN  /\ NutrientsAsRuled(v, out)
              /\ ret[1].t = "Recipe"
                 => /\ Len(ret[1].nutrients.v) = Len(out.v)
                    /\ \A i \in 1..Len(out.v) :
                          ret[1].nutrients.v[i] = Nutrient(out.v[i])

\* a mapping of two entries, one with a number, has been converted by the
\* validator
C9_Witness ==
    /\ Returned("validate")
    /\ IsInstance(input["nutrients"], {"dict"})
    /\ Len(input["nutrients"].v) = 2
    /\ IsInstance(input["nutrients"].v[1].val, {"int"})
    /\ ret[1].is_valid
    /\ Len(ret[1].recipe["nutrients"].v) = 2

\* s[i..j] matches \d+\.?\d*
MatchesNumber(s, i, j) ==
    \E a \in i..j :
        /\ \A x \in i..a : IsDigit(s[x])
        /\ a = j \/ (s[a + 1] = "." /\ \A x \in (a + 2)..j : IsDigit(s[x]))

\* the first numeric token of a string that has a digit
FirstToken(s) ==
    LET i == CHOOSE x \in 1..Len(s) :
                 IsDigit(s[x]) /\ \A y \in 1..(x - 1) : ~IsDigit(s[y])
        j == CHOOSE x \in i..Len(s) :
                 MatchesNumber(s, i, x)
                 /\ \A y \in (x + 1)..Len(s) : ~MatchesNumber(s, i, y)
    IN  SubSeq(s, i, j)

\* out is the numServings value the rule prescribes for the value v
ServingsAsRuled(v, out) ==
    /\ IsInstance(v, {"int", "float"})
       => out = (IF v.t = "int" THEN PyFloat(v.v, 0) ELSE v)
    /\ IsInstance(v, {"str"})
       => IF \E x \in 1..Len(v.v) : IsDigit(v.v[x])
          THEN out = FloatOfToken(FirstToken(v.v))
          ELSE out = PyNone
    /\ ~IsInstance(v, {"int", "float", "str"}) => out = PyNone

\* C10: a number becomes a float (6 -> 6.0), a string the float of its
\* first numeric token or None when it has no digit, anything else None,
\* and the value of numServings never makes a record invalid; in
\* validate_and_transform_recipe, in process_recipe_fields and in the
\* numServings validator of Recipe.
C10_ServingsNormalized ==
    /\ (Returned("process") /\ Has(input, "numServings"))
       => ServingsAsRuled(input["numServings"], ret[1]["numServings"])
    /\ (Returned("validate") /\ Has(input, "numServings")
          /\ ret[1].t = "ValidationResult")
       => /\ ret[1].is_valid
             => ServingsAsRuled(input["numServings"],
                                ret[1].recipe["numServings"])
          /\ ~ret[1].is_valid
             => validate_and_transform_recipe(Pop(input, "numServings")) = ret[1]
    /\ Returned("from_raw")
       => LET v == Get(input, "numServings", PyNone)
          IN  /\ ServingsAsRuled(v, _normalize_servings(v))
              /\ ret[1].t = "Recipe" => ret[1].numServings = _normalize_servings(v)

\* C11: after validate_and_transform_recipe(r) or process_recipe_fields(r)
\* has returned, whatever it returned, the caller's r has the keys and the
\* values it had before the call.
C11_CallerRecordUnchanged ==
    (Returned("validate") \/ Returned("process")) => recipe = input

\* a model was built and Recipe.validate has run on it
Validated == op = "from_raw" /\ Len(ret) = 2

Rejected(x) == x.t = "raise"

\* an attribute of the built model that is None, "" or []
EmptyOn(self, k) == self[k] \in {PyNone, EmptyStr, PyList(<<>>)}

\* C12: Recipe.from_raw followed by Recipe.validate rejects the record
\* exactly when one of id, title, ingredients, ingredientStrings, nutrients
\* is empty on the built model.
C12_RejectsIffOneOfFiveEmpty ==
    Validated
    => (Rejected(ret[2])
        <=> \E k \in {"id", "title", "ingredients", "ingredientStrings",
                      "nutrients"} : EmptyOn(ret[1], k))

\* C12, amended: Recipe.validate rejects the built model exactly when one
\* of id, uuid, title, ingredients, ingredientStrings, nutrients is empty on
\* it, and returns None otherwise.
C12_RejectsIffOneOfSixEmpty ==
    Validated
    => /\ Rejected(ret[2])
          <=> \E k \in {"id", "uuid", "title", "ingredients",
                        "ingredientStrings", "nutrients"} : EmptyOn(ret[1], k)
       /\ ~Rejected(ret[2]) => ret[2] = PyNone

\* a record with the five attributes and no uuid, rejected
C12_Witness ==
    /\ Validated
    /\ Rejected(ret[2])
    /\ EmptyOn(ret[1], "uuid")
    /\ \A k \in {"id", "title", "ingredients", "ingredientStrings", "nutrients"} :
           ~EmptyOn(ret[1], k)

\* the clause of Recipe.validate for each attribute, in the order checked
RequiredOrder == <<"id", "uuid", "title", "ingredients", "ingredientStrings",
                   "nutrients">>

ClauseOf(k) ==
    CASE k = "id" -> "id is required"
      [] k = "uuid" -> "uuid is required"
      [] k = "title" -> "title is required"
      [] k = "ingredients" -> "ingredients are required structured"
      [] k = "ingredientStrings" -> "ingredient strings are required"
      [] k = "nutrients" -> "nutrients are required"

\* the positions of RequiredOrder whose attribute is empty on the model
Violated(self) == {j \in 1..Len(RequiredOrder) : EmptyOn(self, RequiredOrder[j])}

\* message is one clause per violated requirement, in check order, with
\* "; " between two clauses
AccumulatedMessage(self, message) ==
    LET k == Cardinality(Violated(self))
    IN  /\ Len(message) = 2 * k - 1
        /\ \A n \in 1..k :
              \E j \in Violated(self) :
                 /\ Cardinality({h \in Violated(self) : h < j}) = n - 1
                 /\ message[2 * n - 1] = ClauseOf(RequiredOrder[j])
        /\ \A n \in 1..(k - 1) : message[2 * n] = "; "

\* Recipe.validate on its own, over every model from_raw builds: with
\* k >= 1 requirements violated it raises one ValueError whose message has
\* one clause for each violated requirement, in check order.
ValidateAccumulates ==
    (Validated /\ Violated(ret[1]) # {})
    => /\ ret[2].t = "raise"
       /\ ret[2].exc = "ValueError"
       /\ AccumulatedMessage(ret[1], ret[2].message)

\* the validation loop of the run is behind it, or was never entered
ValidationDone == pc \in {"upload", "loop", "returned"}

\* the positions of the failed list that name the record identified by x
FailedFor(x) == {n \in 1..Len(result.failed) : result.failed[n].id = x}

\* C13: Recipe.validate accumulates: a record whose model violates k >= 1
\* requirements gets, in the new entry points, exactly one failed entry,
\* whose error is the one message of Recipe.validate: one clause for each
\* violated requirement, in check order, joined by "; ".
C13_OneEntryAllClauses ==
    (ValidationDone /\ call.entry # "upload_recipes_to_firebase")
    => \A j \in 1..Len(recipes) :
          LET model == from_raw(recipes[j])
              x == Get(recipes[j], IdentifierKey(call.entry), PyNone)
          IN  (model.t = "Recipe" /\ Violated(model) # {})
              => /\ Cardinality(FailedFor(x)) = 1
                 /\ \A n \in FailedFor(x) :
                       AccumulatedMessage(model, result.failed[n].error)

\* a record without uuid and nutrients has its one entry, of two clauses
C13_Witness ==
    /\ ValidationDone
    /\ call.entry = "upload_from_file"
    /\ \E j \in 1..Len(recipes) :
          /\ Cardinality(Violated(from_raw(recipes[j]))) = 2
          /\ \E n \in FailedFor(recipes[j]["id"]) :
                result.failed[n].error
                    = <<"uuid is required", "; ", "nutrients are required">>

\* the filter has run in this run, on a set the lookup returned
Filtered ==
    /\ pc \in {"validate", "upload", "loop", "returned"}
    /\ call.exclude_uploaded
    /\ ~(call.entry = "upload_from_url" /\ source = <<>>)
    /\ ~(call.entry \in {"upload_from_file", "upload_from_local"} /\ source = <<>>)

\* the key the claim gives each source
SourceKey ==
    IF call.entry \in {"upload_from_file", "upload_from_url"} THEN "id"
    ELSE "recipe_id"

\* sub lists, in the order of full, exactly the full[j] with j in picked
ListsExactly(sub, full, picked, item(_)) ==
    /\ Len(sub) = Cardinality(picked)
    /\ \A j \in picked :
          sub[Cardinality({k \in picked : k <= j})] = item(full[j])

C15_PreUploadCounts ==
    (pc = "upload" \/ (pc = "returned" /\ upload_pos = 0))
    => result.total_selected
           = result.total_valid + Len(result.failed) + Len(result.skipped)

\* a run with a valid, an invalid and a skipped record, about to upload
C15_Witness ==
    /\ pc = "upload"
    /\ result.total_valid >= 1
    /\ Len(result.failed) >= 1
    /\ Len(result.skipped) >= 1

\* the positions of the failed list whose entry the upload loop added
UploadFailures ==
    {n \in 1..Len(result.failed) :
        result.failed[n].error \in {SetMessage, CommitMessage}}

\* C16: when the upload has returned, uploaded plus the failure entries
\* added during upload equals total_valid, whatever document sets and
\* batch commits failed.
C16_PostUploadCounts ==
    (pc = "returned" /\ upload_pos > 0)
    => result.uploaded + Cardinality(UploadFailures) = result.total_valid

\* C17: a failing document set or batch commit never leaves the entry
\* point as an exception: the run records it and still returns its result.
C17_NoUploadFailureEscapes ==
    ~(pc = "raised" /\ exc = "CommitFailure")

\* C18: when get_uploaded_recipe_ids raises, the exception leaves the entry
\* point: no record is validated, no upload call is made and no result is
\* returned.
C18_LookupFailureFatal ==
    exc = "LookupFailure"
    => /\ pc = "raised"
       /\ result.total_valid = 0
       /\ result.failed = <<>>
       /\ valid_recipes = <<>>
       /\ handed = <<>>
       /\ stored = <<>>
       /\ handle = "None"

\* the lookup has raised in a run of several records
C18_Witness ==
    /\ exc = "LookupFailure"
    /\ pc = "raised"
    /\ Len(source) >= 2

\* the place in the input of the record identified by x
InputPlace(x) ==
    CHOOSE j \in 1..Len(source) : Get(source[j], SourceKey, PyNone) = x

\* the entries name input records, in input order
InInputOrder(ids) ==
    /\ \A n \in 1..Len(ids) :
          \E j \in 1..Len(source) : Get(source[j], SourceKey, PyNone) = ids[n]
    /\ \A m, n \in 1..Len(ids) : m < n => InputPlace(ids[m]) < InputPlace(ids[n])

\* C19: records are handed to the uploader in input order, and in every
\* result returned the skipped list and the failed list are each in input
\* order.
C19_ListsInInputOrder ==
    (pc = "returned" /\ source # <<>>)
    => LET named(e) == e.id
       IN  /\ InInputOrder(handed)
           /\ InInputOrder(Map(named, result.skipped))
           /\ InInputOrder(Map(named, result.failed))

\* C20: a run writes through the client of the config it was called with,
\* whatever runs came before it in the process.
C20_RunUsesItsConfig ==
    handle # "None" => handle = call.env

\* the three fields whose type is checked, in the order of the checks
TypeCheckOrder == <<"tags", "instructions", "ingredients">>

FieldStr(k) ==
    CASE k = "tags" -> STR_tags
      [] k = "instructions" -> STR_instructions
      [] k = "ingredients" -> STR_ingredients

\* the places of TypeCheckOrder whose field of d is not a list
NotLists(d) ==
    {j \in 1..3 : ~IsInstance(d[TypeCheckOrder[j]], {"list"})}

\* the least number of a non-empty set of numbers
Least(S) == CHOOSE j \in S : \A k \in S : j <= k

\* C25: with tags, instructions and ingredients all present, the single
\* error names the first of tags, instructions, ingredients that is not a
\* list, also when later ones are not lists either.
C25_FirstMismatchReported ==
    LET d == RenameFields(input)
    IN  (Returned("validate")
           /\ \A j \in 1..3 : Has(d, TypeCheckOrder[j])
           /\ NotLists(d) # {})
        => LET first == TypeCheckOrder[Least(NotLists(d))]
           IN  /\ FailsOn(ret[1], FieldStr(first))
               /\ ret[1].errors[1].error
                      \in {"tags is not a list", "instructions is not a list",
                           "ingredients is not a list"}

\* tags is a list, instructions and ingredients are not: the error is the
\* one on instructions
C25_Witness ==
    /\ Returned("validate")
    /\ \A j \in 1..3 : Has(RenameFields(input), TypeCheckOrder[j])
    /\ NotLists(RenameFields(input)) = {2, 3}
    /\ FailsOn(ret[1], STR_instructions)

\* tags and instructions of a table record are lists, or are not there
ListTyped(r) ==
    /\ IsInstance(Get(r, "tags", PyList(<<>>)), {"list"})
    /\ IsInstance(Get(r, "instructions", PyList(<<>>)), {"list"})

\* C30: a table record with ingredientStrings S and a list P under
\* procesedIngredients, mapped and validated, gives a valid record with
\* id = recipe_id, ingredientStrings = S, ingredients = P and no
\* procesedIngredients; on mapped records nothing but a list-type mismatch
\* fails.
C30_TableRoundTrip ==
    Returned("map_validate")
    => /\ ret[1].t = "ValidationResult"
       /\ ~ret[1].is_valid
          => /\ Len(ret[1].errors) = 1
             /\ ret[1].errors[1].field \in {STR_tags, STR_instructions, STR_ingredients}
             /\ ret[1].errors[1].error
                    \in {"tags is not a list", "instructions is not a list",
                         "ingredients is not a list"}
       /\ (Has(input, "ingredientStrings")
             /\ IsInstance(Get(input, "procesedIngredients", PyNone), {"list"})
             /\ ListTyped(input))
          => /\ ret[1].is_valid
             /\ ret[1].recipe["id"] = Get(input, "recipe_id", PyNone)
             /\ ret[1].recipe["ingredientStrings"] = input["ingredientStrings"]
             /\ ret[1].recipe["ingredients"] = input["procesedIngredients"]
             /\ ~Has(ret[1].recipe, "procesedIngredients")

\* a table record with its recipe_id, S and P comes out valid
C30_Witness ==
    /\ Returned("map_validate")
    /\ Has(input, "recipe_id")
    /\ Has(input, "ingredientStrings")
    /\ IsInstance(Get(input, "procesedIngredients", PyNone), {"list"})
    /\ ret[1].is_valid
    /\ ret[1].recipe["id"] = input["recipe_id"]

\* a table record whose tags is a string fails, on tags
C30_WitnessMismatch ==
    /\ Returned("map_validate")
    /\ ~ret[1].is_valid
    /\ ret[1].errors[1].field = STR_tags

\* a call of init_firebase has just raised for its missing credentials file
InitFailed == pc' = pc /\ exc' = "FileNotFoundError"

C29_WitnessFailed ==
    /\ pc = "idle"
    /\ exc = "FileNotFoundError"
    /\ _app = "None"
    /\ init_calls = 0

\* the key under which the input of the run in progress names its records
InputKey ==
    IF call.entry \in {"upload_recipes_to_firebase", "upload_from_local"}
    THEN "recipe_id" ELSE "id"

\* the input record that the j-th valid record was made from
InputOf(j) ==
    CHOOSE r \in {source[k] : k \in 1..Len(source)} :
        Get(r, InputKey, PyNone) = valid_recipes[j]["id"]

\* C21: every record handed to the uploader has a channel: that of its
\* input record when the input has one, "discover" when it has none.
C21_ChannelKept ==
    \A j \in 1..upload_pos :
        /\ Has(valid_recipes[j], "channel")
        /\ valid_recipes[j]["channel"] = Get(InputOf(j), "channel", STR_discover)

\* the counts of the entry points are those of validating the records the
\* filter kept
ValidationCounts ==
    LET key == IdentifierKey(call.entry)
        entry(r) == [id |-> Get(r, key, PyNone), error |-> Outcome(r).error]
        passed == SelectSeq(recipes, LAMBDA r : Outcome(r).valid)
        refused == SelectSeq(recipes, LAMBDA r : ~Outcome(r).valid)
    IN  /\ result.total_valid = Len(passed)
        /\ result.failed = Map(entry, refused)
        /\ result.skipped = SkippedEntries(source, key, uploaded_ids)

\* the counts of upload_batch are those of validating the processed records
BatchValidationCounts ==
    LET entry(r) == [id |-> Get(r, "id", PyNone), error |-> validate_recipe(r).error]
        refused == SelectSeq(recipes, LAMBDA r : ~validate_recipe(r).is_valid)
    IN  /\ result.total = Len(source)
        /\ result.failed = Map(entry, refused)
        /\ result.skipped = <<>>
        /\ Len(valid_recipes) + Len(refused) = Len(source)

C24_WitnessEntryPoint ==
    /\ pc = "returned"
    /\ call.dry_run
    /\ result.total_valid >= 1
    /\ Len(result.failed) >= 1
    /\ Len(result.skipped) >= 1

\* an upload loop has returned and no document set or commit has failed
UploadedCleanly ==
    /\ \/ pc = "returned" /\ upload_pos > 0
       \/ pc = "batch_returned" /\ ~call.dry_run /\ upload_pos > 0
    /\ UploadFailures = {}

\* the count the uploader returns
UploadedCount ==
    IF pc = "batch_returned" THEN result.success ELSE result.uploaded

\* C26: with batch size N and n valid records and no failure of the
\* collaborator, the uploader commits after every Nth record and once
\* more for a remainder: ceil(n/N) commits, each but the last of N
\* records, the last of 1 to N, and the uploaded count is n.
C26_Batching ==
    UploadedCleanly
    => LET N == call.batch_size
           n == Len(valid_recipes)
           commits == Len(stored)
       IN  /\ commits = (n + N - 1) \div N
           /\ \A c \in 1..(commits - 1) : Len(stored[c]) = N
           /\ Len(stored[commits]) \in 1..N
           /\ \A c \in 1..commits : Len(stored[c]) >= 1
           /\ \A c \in 1..commits :
                 \A k \in 1..Len(stored[c]) :
                    stored[c][k] = valid_recipes[(c - 1) * N + k]["id"]
           /\ UploadedCount = n

\* three records under a batch size of two: a full commit and a remainder
C26_Witness ==
    /\ UploadedCleanly
    /\ call.batch_size = 2
    /\ Len(valid_recipes) = 3
    /\ Len(stored) = 2
    /\ Len(stored[1]) = 2
    /\ Len(stored[2]) = 1

\* the lookup has returned in this run and the filter has been applied
FilterDone ==
    /\ pc \in {"validate", "upload", "loop", "returned", "raised"}
    /\ call.exclude_uploaded
    /\ exc # "LookupFailure"
    /\ source # <<>>

InRun == pc \notin {"idle", "batch_called", "batch_validate", "batch_loop",
                    "batch_returned", "batch_raised"}

\* C28: a run calls get_uploaded_recipe_ids at most once, and before any
\* record is validated; it does not call it when exclude_uploaded is False
\* (and skipped then stays empty), when the batch is empty or when scraping
\* failed.
C28_LookupAtMostOnce ==
    InRun
    => /\ lookups <= 1
       /\ (lookups = 0 /\ call.exclude_uploaded /\ source # <<>>)
          => pc \in {"called", "filter"}
       /\ pc = "filter"
          => /\ result.total_valid = 0
             /\ result.failed = <<>>
             /\ valid_recipes = <<>>
       /\ ~call.exclude_uploaded
          => /\ lookups = 0
             /\ pc # "called" => result.skipped = <<>>
       /\ source = <<>> => lookups = 0

\* the letters of the dataset's titles, in lower case
Lower(c) == IF c = "S" THEN "s" ELSE c

LowerCase(text) == [j \in 1..Len(text) |-> Lower(text[j])]

\* what the documentation of filter_recipes says a key asks of a row: a bare
\* column is equality, __gte of the examples is at least, __contains ignores
\* letter case
Documented(row, item) ==
    CASE item.key = KEY_healthGrade -> row.healthGrade = item.value
      [] item.key = KEY_recipe_id -> row.recipe_id = item.value
      [] item.key = KEY_healthGrade__eq -> row.healthGrade = item.value
      [] item.key = KEY_healthGrade__ne -> row.healthGrade # item.value
      [] item.key = KEY_healthGrade__in ->
            \E k \in 1..Len(item.value) : item.value[k] = row.healthGrade
      [] item.key = KEY_healthScore__lt -> row.healthScore < item.value
      [] item.key = KEY_healthScore__le -> row.healthScore <= item.value
      [] item.key = KEY_healthScore__gt -> row.healthScore > item.value
      [] item.key = KEY_healthScore__ge -> row.healthScore >= item.value
      [] item.key = KEY_ratings__gte -> row.ratings >= item.value
      [] item.key = KEY_title__contains ->
            StrContains(LowerCase(row.title), LowerCase(item.value))

\* the keys of a documented form on a column of the dataset
DocumentedKeys ==
    {KEY_healthGrade, KEY_recipe_id, KEY_healthGrade__eq, KEY_healthGrade__ne,
     KEY_healthGrade__in, KEY_healthScore__lt, KEY_healthScore__le,
     KEY_healthScore__gt, KEY_healthScore__ge, KEY_ratings__gte,
     KEY_title__contains}

AllDocumented(query) == \A j \in 1..Len(query) : query[j].key \in DocumentedKeys

\* the rows of the dataset that satisfy every entry of query, in dataset
\* order
Matching(query) ==
    SelectSeq(recipes_table,
              LAMBDA row : \A j \in 1..Len(query) : Documented(row, query[j]))

\* C23: filter_recipes accepts every documented key form and returns
\* exactly the rows that satisfy all the comparisons; it raises ValueError
\* only for a column that is not in the dataset or an operator that is not
\* documented.
C23_FilterAsDocumented ==
    Returned("filter_recipes")
    => IF AllDocumented(input.query)
       THEN /\ ret[1].t = "DataFrame"
            /\ ret[1].rows = Matching(input.query)
       ELSE /\ ret[1].t = "raise"
            /\ ret[1].exc = "ValueError"

\* C22: get_batch_of_recipes returns the first min(count, m) of the m rows
\* that match the query, in dataset order; for count 0 an empty table of the
\* dataset's schema; for a negative count it raises ValueError and collects
\* no data.
C22_BatchIsPrefix ==
    Returned("get_batch_of_recipes")
    => LET got == ret[1]
           m == Len(Matching(input.query))
           least == IF input.count < m THEN input.count ELSE m
       IN  /\ input.count < 0
              => /\ got.result.t = "raise"
                 /\ got.result.exc = "ValueError"
                 /\ ~got.collected
           /\ input.count = 0
              => /\ got.result.t = "DataFrame"
                 /\ got.result.rows = <<>>
                 /\ got.result.columns = schema
           /\ (input.count > 0 /\ AllDocumented(input.query))
              => /\ got.result.t = "DataFrame"
                 /\ got.result.rows = SubSeq(Matching(input.query), 1, least)
====
